---------------------------- MODULE Spec2Model ----------------------------
(***************************************************************************)
(* Acquisition-orchestration layer of the scraper:                         *)
(*   - EnhancedScraperManager.scrape_with_fallback  (src/scrapers/manager) *)
(*   - the job lifecycle: create_job, start_job, stop_job and the job task *)
(*     _run_job_with_fallback                       (src/scrapers/manager) *)
(*   - BaseScraper._make_request under its tenacity @retry decorator       *)
(*                                                  (src/scrapers/base)    *)
(*                                                                         *)
(* The specifications share the variables below; each leaves the          *)
(* variables it does not use at their initial value.                       *)
(*   Spec         the strategy registry and scrape_with_fallback           *)
(*   SpecSearch   scrape_search_with_fallback                              *)
(*   SpecInfo     the strategy registry and get_strategy_info              *)
(*   SpecJobs     the job lifecycle, several jobs and calls interleaved    *)
(*   SpecJobsFair SpecJobs under a fair asyncio event loop                 *)
(*   SpecRun      the two job procedures, one job followed post by post    *)
(*   SpecRetry    _make_request and its retry decorator                    *)
(*   SpecFetch    the fetches of the three Reddit adapters                 *)
(*   SpecHealth   the adapters' and the manager's health_check             *)
(*   SpecAdapter  one adapter's scrape_posts, item by item                 *)
(*   SpecComments the web adapter's traversal of a reply tree              *)
(*   SpecExit     __aexit__ while jobs are active                          *)
(*   SpecLimiter  RateLimiter.acquire                                      *)
(***************************************************************************)
EXTENDS Integers, Sequences, FiniteSets, TLC

VARIABLES
    strategies,         \* self.strategies: platform -> registered strategies, in dict key order
    init_args,          \* what the last __aenter__ met: the setting, and which adapters could be built
    info,               \* what the last get_strategy_info returned
    aexit,              \* position of __aexit__ and the state of its iterator over active_jobs
    fb_pc,              \* position of the scrape_with_fallback call
    fb_args,            \* its arguments and what each adapter will do when drained
    strategies_to_try,  \* local: the try-order
    fb_idx,             \* local: index in strategies_to_try of the loop variable `strategy`
    posts,              \* local: the list being drained into
    last_error,         \* local: last_error
    attempted,          \* log of the strategies whose scrape_posts was invoked by this call
    fb_result,          \* what the call returned or raised
    db_jobs,            \* table scraping_jobs: job_id -> persisted record
    active_jobs,        \* self.active_jobs: the job ids that have an entry (job_id -> task)
    tasks,              \* the asyncio task of each job: position, cancel request, arguments
    stop_waiters,       \* per job, the number of stop_job calls suspended at `await task`
    ret,                \* what the manager call that has just finished gave its caller
    rq_pc,              \* position of the _make_request call
    rq_attempts,        \* how each attempt of the decorated function ended, in order
    rq_acquired,        \* completed rate_limiter.acquire() calls of this _make_request call
    rq_waits,           \* the sleeps tenacity took between attempts, in seconds
    rq_result,          \* what _make_request returned or raised to its caller
    rq_caller,          \* the adapter whose fetch is in progress
    rq_net,             \* what that fetch has done so far, in order: entered _make_request, acquired, sent a request
    run_pc,             \* position of the job procedure being run
    run_args,           \* which procedure, its job, and what its source of posts will do
    run_locals,         \* the procedure's locals: counters, error list, the caught exception
    db_posts,           \* table scraped_posts: the posts and comments save_post stored
    lim_max_rate,       \* RateLimiter: requests_per_window (the window is that many ticks)
    lim_level,          \* AsyncLimiter._level, the content of the leaky bucket
    lim_callers,        \* each caller of acquire(): "idle" or "waiting"
    lim_window          \* acquisitions completed, by age in ticks, over the trailing window

reg_vars == <<strategies, init_args, info, aexit>>

fb_vars == <<reg_vars, fb_pc, fb_args, strategies_to_try, fb_idx, posts,
             last_error, attempted, fb_result>>

job_vars == <<db_jobs, active_jobs, tasks, stop_waiters, ret>>

rq_vars == <<rq_pc, rq_attempts, rq_acquired, rq_waits, rq_result,
             rq_caller, rq_net>>

run_vars == <<run_pc, run_args, run_locals, db_posts>>

lim_vars == <<lim_max_rate, lim_level, lim_callers, lim_window>>

None == "None"
NoError == [raised_by |-> None]
NoInit == [entered |-> FALSE]
NoInfo == [asked |-> FALSE]
NoExit == [pc |-> "idle"]
NoRet == [op |-> "none"]

NoResult == [kind |-> "none"]

RqIdle ==
    /\ rq_pc = "idle"
    /\ rq_attempts = <<>>
    /\ rq_acquired = 0
    /\ rq_waits = <<>>
    /\ rq_result = NoResult
    /\ rq_caller = None
    /\ rq_net = <<>>

NoRun == [proc |-> None]
NoLocals == [i |-> 0]

RunIdle ==
    /\ run_pc = "idle"
    /\ run_args = NoRun
    /\ run_locals = NoLocals
    /\ db_posts = {}

MaxCallers == 3     \* concurrent callers of one limiter's acquire()
Callers == 1..MaxCallers

LimIdle ==
    /\ lim_max_rate = 1
    /\ lim_level = 0
    /\ lim_callers = [c \in Callers |-> "idle"]
    /\ lim_window = [a \in 0..0 |-> 0]

JobsIdle ==
    /\ db_jobs = [j \in {} |-> None]
    /\ active_jobs = {}
    /\ tasks = [j \in {} |-> None]
    /\ stop_waiters = [j \in {} |-> 0]
    /\ ret = NoRet

(***************************************************************************)
(* models.py                                                               *)
(***************************************************************************)
Platform == {"reddit", "twitter"}
ScrapingStrategy == {"api", "web", "browser", "feed", "alternative"}

(***************************************************************************)
(* Bounds of the model                                                     *)
(***************************************************************************)
MaxItems == 2       \* most items an adapter has to yield for one call
MaxPostsArg == 2    \* largest max_posts argument

(***************************************************************************)
(* Exceptions                                                              *)
(***************************************************************************)
bases_cancelled_is_exception(exc) ==
    CASE exc = "ClientResponseError" ->
            {"ClientResponseError", "ClientError", "Exception"}
      [] exc = "ClientConnectionError" ->
            {"ClientConnectionError", "ClientError", "Exception"}
      [] exc = "TimeoutError" -> {"TimeoutError", "Exception"}
      [] exc = "JSONDecodeError" -> {"JSONDecodeError", "ValueError", "Exception"}
      [] exc = "RetryError" -> {"RetryError", "Exception"}
      [] exc = "CancelledError" -> {"CancelledError", "Exception"}
      [] OTHER -> {}

(* the classes an exception is an instance of.  asyncio.CancelledError
   derives from BaseException, not from Exception. *)
bases(exc) ==
    CASE exc = "ClientResponseError" ->
            {"ClientResponseError", "ClientError", "Exception"}
      [] exc = "ClientConnectionError" ->
            {"ClientConnectionError", "ClientError", "Exception"}
      [] exc = "TimeoutError" -> {"TimeoutError", "Exception"}
      [] exc = "JSONDecodeError" -> {"JSONDecodeError", "ValueError", "Exception"}
      [] exc = "RetryError" -> {"RetryError", "Exception"}
      [] exc = "CancelledError" -> {"CancelledError", "BaseException"}
      [] OTHER -> {}

isinstance(exc, classes) == bases(exc) \cap classes # {}

except_Exception_client_errors_only(exc) == isinstance(exc, {"ClientError"})

(* `except Exception as e` (base.py 208; manager.py 153 and 312) *)
except_Exception_catches(exc) == isinstance(exc, {"Exception"})

InSeq(x, s) == \E i \in 1..Len(s) : s[i] = x
SeqToSet(s) == {s[i] : i \in 1..Len(s)}
Min(a, b) == IF a < b THEN a ELSE b

(***************************************************************************)
(* Strategy registry: __aenter__ / _init_reddit_scrapers.                  *)
(* ok[s] says whether constructing and entering adapter s succeeds.        *)
(* The result is the key order of self.strategies[REDDIT].                 *)
(***************************************************************************)
init_reddit_scrapers_first_failure_aborts(enable_api_scrapers, ok) ==
    LET api  == IF enable_api_scrapers /\ ok["api"] THEN <<"api">> ELSE <<>>
        web  == IF (enable_api_scrapers => ok["api"]) /\ ok["web"]
                THEN <<"web">> ELSE <<>>
        feed == IF web # <<>> /\ ok["feed"] THEN <<"feed">> ELSE <<>>
    IN  api \o web \o feed

(* three try blocks, each with its own `except Exception` that only logs *)
init_reddit_scrapers(enable_api_scrapers, ok) ==
    LET api  == IF enable_api_scrapers /\ ok["api"] THEN <<"api">> ELSE <<>>
        web  == IF ok["web"] THEN <<"web">> ELSE <<>>
        feed == IF ok["feed"] THEN <<"feed">> ELSE <<>>
    IN  api \o web \o feed

aenter ==
    /\ fb_pc = "idle"
    /\ \E enable_api_scrapers \in BOOLEAN :
       \E ok \in [{"api", "web", "feed"} -> BOOLEAN] :
          /\ strategies' = [p \in {"reddit"} |->
                               init_reddit_scrapers(enable_api_scrapers, ok)]
          /\ init_args' = [entered |-> TRUE,
                           enable_api_scrapers |-> enable_api_scrapers,
                           ok |-> ok]
    /\ UNCHANGED <<info, aexit>>
    /\ UNCHANGED <<fb_pc, fb_args, strategies_to_try, fb_idx, posts,
                   last_error, attempted, fb_result>>
    /\ UNCHANGED <<job_vars, rq_vars, run_vars, lim_vars>>

(***************************************************************************)
(* Adapters.  An adapter call is described by what the source has for it:  *)
(* `items` convertible items, and whether the call ends by raising         *)
(* (`throws`) after the items it yielded.  scrape_posts yields at most     *)
(* max_posts of them.  A post is <<strategy, position>>.                   *)
(***************************************************************************)
Outcome == [items : 0..MaxItems, throws : BOOLEAN]

scrape_posts(strategy, outcome, max_posts) ==
    [i \in 1..Min(outcome.items, max_posts) |-> <<strategy, i>>]

(***************************************************************************)
(* scrape_with_fallback: the try-order (manager.py 117-130)                *)
(***************************************************************************)
default_order == <<"web", "feed", "api">>

RECURSIVE append_available(_, _, _, _)
append_available(acc, order, available, skip) ==
    IF order = <<>> THEN acc
    ELSE append_available(
            IF Head(order) # skip /\ InSeq(Head(order), available)
            THEN Append(acc, Head(order)) ELSE acc,
            Tail(order), available, skip)

determine_strategy_order_no_fallback_filter(available, preferred_strategy) ==
    IF preferred_strategy # None /\ InSeq(preferred_strategy, available)
    THEN append_available(<<preferred_strategy>>, default_order, available, None)
    ELSE append_available(<<>>, default_order, available, None)

determine_strategy_order(available, preferred_strategy) ==
    IF preferred_strategy # None /\ InSeq(preferred_strategy, available)
    THEN append_available(<<preferred_strategy>>, default_order, available,
                          preferred_strategy)
    ELSE append_available(<<>>, default_order, available, None)

(***************************************************************************)
(* scrape_with_fallback, entry (manager.py 109-135): the checks that raise *)
(* ValueError, the try-order, last_error = None (NoError here).            *)
(***************************************************************************)
check_platform_missing_only(registry, platform) ==
    IF platform \notin DOMAIN registry
    THEN "ValueError: No scrapers available"
    ELSE None

(* lines 109-115: the two checks on the registry; None when both pass *)
check_platform(registry, platform) ==
    IF platform \notin DOMAIN registry
    THEN "ValueError: No scrapers available"
    ELSE IF registry[platform] = <<>>
    THEN "ValueError: No working scrapers available"
    ELSE None

scrape_with_fallback_call ==
    /\ fb_pc = "idle"
    /\ \E platform \in Platform :
       \E max_posts \in 0..MaxPostsArg :
       \E preferred_strategy \in ScrapingStrategy \cup {None} :
       \E outcome \in [{"api", "web", "feed"} -> Outcome] :
          /\ fb_args' = [platform |-> platform, max_posts |-> max_posts,
                         preferred_strategy |-> preferred_strategy,
                         outcome |-> outcome]
          /\ attempted' = <<>>
          /\ posts' = <<>>
          /\ last_error' = NoError
          /\ fb_idx' = 1
          /\ IF check_platform(strategies, platform) # None
             THEN /\ fb_pc' = "raised"
                  /\ fb_result' = [error |-> check_platform(strategies, platform)]
                  /\ strategies_to_try' = <<>>
             ELSE LET order == determine_strategy_order(strategies[platform],
                                                        preferred_strategy)
                  IN  /\ strategies_to_try' = order
                      /\ IF order = <<>>
                         THEN /\ fb_pc' = "raised"
                              /\ fb_result' = [error |-> "ValueError: No strategies available"]
                         ELSE /\ fb_pc' = "trying"
                              /\ fb_result' = None
    /\ UNCHANGED reg_vars
    /\ UNCHANGED <<job_vars, rq_vars, run_vars, lim_vars>>

(***************************************************************************)
(* scrape_with_fallback, one iteration of the loop (manager.py 137-156)    *)
(* and, after the last one, the raise of line 158.                         *)
(*   after_attempt decides what follows an attempt: "return", or           *)
(*   "continue" with the next strategy.                                    *)
(***************************************************************************)
drain_without_reset(previous, yielded) == previous \o yielded

(* lines 142-144: posts = [] and then one append per post the adapter
   yields *)
drain(previous, yielded) == <<>> \o yielded

except_Exception_first_only(previous, strategy, threw) ==
    IF threw /\ previous = NoError THEN [raised_by |-> strategy] ELSE previous

(* lines 153-156: last_error = e when the attempt raised *)
except_Exception(previous, strategy, threw) ==
    IF threw THEN [raised_by |-> strategy] ELSE previous

after_attempt_no_empty_check(drained, threw) ==
    IF threw THEN "continue" ELSE "return"

after_attempt_return_misplaced(drained, threw) ==
    "continue"

after_attempt(drained, threw) ==
    IF threw THEN "continue"
    ELSE IF drained # <<>> THEN "return" ELSE "continue"

scrape_with_fallback_attempt ==
    /\ fb_pc = "trying"
    /\ LET strategy == strategies_to_try[fb_idx]
           outcome  == fb_args.outcome[strategy]
           drained  == drain(posts, scrape_posts(strategy, outcome, fb_args.max_posts))
           threw    == outcome.throws
           error    == except_Exception(last_error, strategy, threw)
       IN  /\ attempted' = Append(attempted, strategy)
           /\ posts' = drained
           /\ last_error' = error
           /\ IF after_attempt(drained, threw) = "return"
              THEN /\ fb_pc' = "returned"
                   /\ fb_result' = [posts |-> drained]
                   /\ fb_idx' = fb_idx
              ELSE IF fb_idx < Len(strategies_to_try)
              THEN /\ fb_pc' = "trying"
                   /\ fb_idx' = fb_idx + 1
                   /\ fb_result' = fb_result
              ELSE /\ fb_pc' = "raised"
                   /\ fb_idx' = fb_idx
                   /\ fb_result' = [error |-> "Exception: All scraping strategies failed",
                                    last_error |-> error]
    /\ UNCHANGED <<reg_vars, fb_args, strategies_to_try>>
    /\ UNCHANGED <<job_vars, rq_vars, run_vars, lim_vars>>

NoArgs == [platform |-> None, max_posts |-> 0, preferred_strategy |-> None,
           outcome |-> [s \in {"api", "web", "feed"} |-> [items |-> 0, throws |-> FALSE]]]

FbIdle ==
    /\ init_args = NoInit
    /\ info = NoInfo
    /\ aexit = NoExit
    /\ fb_pc = "idle"
    /\ fb_args = NoArgs
    /\ strategies_to_try = <<>>
    /\ fb_idx = 1
    /\ posts = <<>>
    /\ last_error = NoError
    /\ attempted = <<>>
    /\ fb_result = None

(* The caller takes the result; the manager can be called again. *)
scrape_with_fallback_done ==
    /\ fb_pc \in {"returned", "raised"}
    /\ fb_pc' = "idle"
    /\ fb_args' = NoArgs
    /\ strategies_to_try' = <<>>
    /\ fb_idx' = 1
    /\ posts' = <<>>
    /\ last_error' = NoError
    /\ attempted' = <<>>
    /\ fb_result' = None
    /\ UNCHANGED reg_vars
    /\ UNCHANGED <<job_vars, rq_vars, run_vars, lim_vars>>

Init ==
    /\ strategies = [p \in {} |-> <<>>]
    /\ FbIdle
    /\ JobsIdle
    /\ RqIdle
    /\ RunIdle
    /\ LimIdle

Next ==
    \/ aenter
    \/ scrape_with_fallback_call
    \/ scrape_with_fallback_attempt
    \/ scrape_with_fallback_done

vars == <<fb_vars, job_vars, rq_vars, run_vars, lim_vars>>

Spec == Init /\ [][Next]_vars

(***************************************************************************)
(* Job lifecycle (SpecJobs).                                               *)
(*                                                                         *)
(* The class body of EnhancedScraperManager defines create_job, stop_job,  *)
(* get_job_status, list_active_jobs and scrape_reddit_subreddit twice.     *)
(* The later definition is the one bound to the name:                      *)
(*   create_job        manager.py 396-420: persists the job, starts nothing *)
(*   create_job_first  manager.py 246-277: persists the job and schedules  *)
(*                     _run_job_with_fallback as a task; shadowed by the   *)
(*                     definition above, it is the only code that puts a   *)
(*                     task in self.active_jobs                            *)
(* SpecJobs has both as actions, so that the task body and stop_job's      *)
(* cancellation path are exercised; every behaviour of the class as bound  *)
(* is a behaviour of SpecJobs that never takes create_job_first.           *)
(***************************************************************************)
MaxJobs == 2        \* job ids are 1..MaxJobs
MaxStops == 2       \* most stop_job calls suspended on one job's task

JobIds == 1..MaxJobs
Terminal == {"completed", "failed", "cancelled"}
utcnow == "utcnow"

(* the ids create_job has handed out: each has an entry in tasks, with
   NoTask for a job no task was created for *)
Created == DOMAIN tasks

(* uuid.uuid4(): an id no earlier job has or had *)
uuid4 == Cardinality(Created) + 1

(***************************************************************************)
(* Text.  A string is the sequence of its characters.                      *)
(***************************************************************************)
(* str.lower() on the letters the model's texts use *)
lower_char(c) ==
    CASE c = "R" -> "r" [] c = "U" -> "u" [] c = "S" -> "s" [] c = "T" -> "t"
      [] c = "G" -> "g" [] c = "O" -> "o" [] OTHER -> c

lower(str) == [i \in DOMAIN str |-> lower_char(str[i])]

(* needle in haystack *)
contains(haystack, needle) ==
    \E k \in 0..(Len(haystack) - Len(needle)) :
        SubSeq(haystack, k + 1, k + Len(needle)) = needle

(* BaseScraper._matches_keywords *)
matches_keywords(content, keywords) ==
    \E i \in DOMAIN keywords : contains(lower(content), lower(keywords[i]))

(* post.content of the posts the model's adapters yield, by position:
   "Rust!", "go", "trust", "Rust!", ...; the k-th comment of the post at
   position n has the text of position n + k *)
content(post) ==
    LET n == IF post[1] = "comment" THEN post[2] + post[3] ELSE post[2]
    IN  CASE n % 3 = 1 -> <<"R", "u", "s", "t", "!">>
          [] n % 3 = 2 -> <<"g", "o">>
          [] OTHER     -> <<"t", "r", "u", "s", "t">>

(* keyword lists of jobs: none, ["RUST"], ["go", "RUST"] *)
Keywords == {<<>>, << <<"R", "U", "S", "T">> >>,
             << <<"g", "o">>, <<"R", "U", "S", "T">> >>}

(* ScrapingJob(...).dict() as stored by save_job, with the columns'
   defaults of ScrapingJobDB; an unset errors column reads as the empty list *)
ScrapingJobDB(platform, max_posts, include_comments, keywords) ==
    [platform |-> platform, max_posts |-> max_posts,
     include_comments |-> include_comments, keywords |-> keywords,
     status |-> "pending",
     posts_scraped |-> 0, comments_scraped |-> 0, errors |-> <<>>,
     started_at |-> None, completed_at |-> None, success |-> FALSE]

save_job(jobs, job_id, record) ==
    [j \in DOMAIN jobs \cup {job_id} |-> IF j = job_id THEN record ELSE jobs[j]]

(* DatabaseManager.update_job_status: nothing when the job is not found;
   keyword arguments that are no column are ignored *)
update_job_status(jobs, job_id, status, kwargs) ==
    IF job_id \in DOMAIN jobs
    THEN [jobs EXCEPT ![job_id] =
             [f \in DOMAIN @ |->
                 IF f = "status" THEN status
                 ELSE IF f \in DOMAIN kwargs THEN kwargs[f] ELSE @[f]]]
    ELSE jobs

NoTask == [pc |-> "none", idx |-> 0, must_cancel |-> FALSE, strategy |-> None]

put(f, k, v) == [x \in DOMAIN f \cup {k} |-> IF x = k THEN v ELSE f[x]]

(* create_job as bound (manager.py 396-420) *)
create_job ==
    /\ ret = NoRet
    /\ uuid4 \in JobIds
    /\ \E platform \in Platform :
          db_jobs' = save_job(db_jobs, uuid4,
                              ScrapingJobDB(platform, MaxPostsArg, FALSE, <<>>))
    /\ tasks' = put(tasks, uuid4, NoTask)
    /\ stop_waiters' = put(stop_waiters, uuid4, 0)
    /\ ret' = [op |-> "create_job", job |-> uuid4, value |-> uuid4]
    /\ UNCHANGED active_jobs
    /\ UNCHANGED <<fb_vars, rq_vars, run_vars, lim_vars>>

(* the first, shadowed definition of create_job (manager.py 246-277), called
   with strategy left at its default, None *)
create_job_first ==
    /\ ret = NoRet
    /\ uuid4 \in JobIds
    /\ \E platform \in Platform :
          db_jobs' = save_job(db_jobs, uuid4,
                              ScrapingJobDB(platform, MaxPostsArg, FALSE, <<>>))
    /\ tasks' = put(tasks, uuid4, [pc |-> "scheduled", idx |-> 0,
                                   must_cancel |-> FALSE, strategy |-> None])
    /\ active_jobs' = active_jobs \cup {uuid4}
    /\ stop_waiters' = put(stop_waiters, uuid4, 0)
    /\ ret' = [op |-> "create_job_first", job |-> uuid4, value |-> uuid4]
    /\ UNCHANGED <<fb_vars, rq_vars, run_vars, lim_vars>>

(* start_job (manager.py 422-454).  self.scrapers is set nowhere in the
   class: line 444 raises AttributeError, lines 445-454 are never reached. *)
start_job(job_id) ==
    /\ ret = NoRet
    /\ ret' = [op |-> "start_job", job |-> job_id,
               value |-> IF job_id \in active_jobs THEN "False"
                         ELSE IF job_id \notin DOMAIN db_jobs THEN "False"
                         ELSE "AttributeError"]
    /\ UNCHANGED <<db_jobs, active_jobs, tasks, stop_waiters>>
    /\ UNCHANGED <<fb_vars, rq_vars, run_vars, lim_vars>>

(***************************************************************************)
(* The job task: _run_job_with_fallback (manager.py 279-324).              *)
(* A task is suspended only inside scrape_with_fallback, while a strategy  *)
(* is being drained; everything after the posts are returned runs without  *)
(* suspension.                                                             *)
(***************************************************************************)
finally_forgotten(active, job_id) == active

(* finally: if job.job_id in self.active_jobs: del self.active_jobs[job.job_id] *)
finally_remove(active, job_id) == active \ {job_id}

job_failed_reports_completed(jobs, job_id, e) ==
    update_job_status(jobs, job_id, "completed",
        [completed_at |-> utcnow, success |-> TRUE, errors |-> <<e>>])

(* except Exception as e (manager.py 312-320) *)
job_failed(jobs, job_id, e) ==
    update_job_status(jobs, job_id, "failed",
        [completed_at |-> utcnow, success |-> FALSE, errors |-> <<e>>])

job_order(job_id) ==
    determine_strategy_order(strategies[db_jobs[job_id].platform],
                             tasks[job_id].strategy)

(* first step of the task: status running, then scrape_with_fallback up to
   the first strategy's fetch; its ValueErrors are caught at line 312 *)
task_start(job_id) ==
    /\ ret = NoRet
    /\ job_id \in DOMAIN tasks
    /\ tasks[job_id].pc = "scheduled"
    /\ ~tasks[job_id].must_cancel
    /\ LET running  == update_job_status(db_jobs, job_id, "running",
                                         [started_at |-> utcnow])
           platform == db_jobs[job_id].platform
           error    == IF platform \notin DOMAIN strategies
                       THEN "ValueError: No scrapers available"
                       ELSE IF strategies[platform] = <<>>
                       THEN "ValueError: No working scrapers available"
                       ELSE IF job_order(job_id) = <<>>
                       THEN "ValueError: No strategies available"
                       ELSE None
       IN  IF error # None
           THEN /\ db_jobs' = job_failed(running, job_id, error)
                /\ active_jobs' = finally_remove(active_jobs, job_id)
                /\ tasks' = [tasks EXCEPT ![job_id].pc = "done"]
           ELSE /\ db_jobs' = running
                /\ tasks' = [tasks EXCEPT ![job_id].pc = "scraping", ![job_id].idx = 1]
                /\ UNCHANGED active_jobs
    /\ UNCHANGED <<stop_waiters, ret>>
    /\ UNCHANGED <<fb_vars, rq_vars, run_vars, lim_vars>>

(* the strategy being drained finishes: the loop of scrape_with_fallback
   goes on, or the posts are saved and the job completes (292-310), or the
   loop is exhausted and the job fails (158, 312-320) *)
task_attempt(job_id) ==
    /\ ret = NoRet
    /\ job_id \in DOMAIN tasks
    /\ tasks[job_id].pc = "scraping"
    /\ ~tasks[job_id].must_cancel
    /\ \E outcome \in Outcome :
          LET order    == job_order(job_id)
              strategy == order[tasks[job_id].idx]
              drained  == scrape_posts(strategy, outcome, db_jobs[job_id].max_posts)
          IN  IF after_attempt(drained, outcome.throws) = "return"
              THEN \E saved \in SUBSET (1..Len(drained)) :
                      /\ db_jobs' = update_job_status(db_jobs, job_id, "completed",
                                        [completed_at |-> utcnow,
                                         posts_scraped |-> Cardinality(saved),
                                         success |-> TRUE])
                      /\ active_jobs' = finally_remove(active_jobs, job_id)
                      /\ tasks' = [tasks EXCEPT ![job_id].pc = "done"]
              ELSE IF tasks[job_id].idx < Len(order)
              THEN /\ tasks' = [tasks EXCEPT ![job_id].idx = @ + 1]
                   /\ UNCHANGED <<db_jobs, active_jobs>>
              ELSE /\ db_jobs' = job_failed(db_jobs, job_id,
                                     "Exception: All scraping strategies failed")
                   /\ active_jobs' = finally_remove(active_jobs, job_id)
                   /\ tasks' = [tasks EXCEPT ![job_id].pc = "done"]
    /\ UNCHANGED <<stop_waiters, ret>>
    /\ UNCHANGED <<fb_vars, rq_vars, run_vars, lim_vars>>

(* the task's next step after task.cancel(): CancelledError is raised at
   the point of suspension.  It is no Exception, so neither line 153 nor
   line 312 catches it; the finally clause runs if the body had been
   entered.  A task cancelled before its first step never runs its body.
   (Were it caught at line 153, it would be one more failed strategy.) *)
task_cancelled(job_id) ==
    /\ ret = NoRet
    /\ job_id \in DOMAIN tasks
    /\ tasks[job_id].pc \in {"scheduled", "scraping"}
    /\ tasks[job_id].must_cancel
    /\ IF tasks[job_id].pc = "scraping" /\ except_Exception_catches("CancelledError")
       THEN IF tasks[job_id].idx < Len(job_order(job_id))
            THEN /\ tasks' = [tasks EXCEPT ![job_id].idx = @ + 1,
                                           ![job_id].must_cancel = FALSE]
                 /\ UNCHANGED <<db_jobs, active_jobs>>
            ELSE /\ db_jobs' = job_failed(db_jobs, job_id,
                                    "Exception: All scraping strategies failed")
                 /\ active_jobs' = finally_remove(active_jobs, job_id)
                 /\ tasks' = [tasks EXCEPT ![job_id].pc = "done"]
       ELSE /\ tasks' = [tasks EXCEPT ![job_id].pc = "cancelled"]
            /\ active_jobs' = IF tasks[job_id].pc = "scraping"
                              THEN finally_remove(active_jobs, job_id)
                              ELSE active_jobs
            /\ UNCHANGED db_jobs
    /\ UNCHANGED <<stop_waiters, ret>>
    /\ UNCHANGED <<fb_vars, rq_vars, run_vars, lim_vars>>

(***************************************************************************)
(* stop_job (manager.py 456-476), in two steps: up to `await task`, and    *)
(* from there once the task has ended.                                     *)
(***************************************************************************)
stop_job_not_running_asks_db(job_id) ==
    job_id \notin DOMAIN db_jobs

(* if job_id not in self.active_jobs *)
stop_job_not_running(job_id) ==
    job_id \notin active_jobs

(* task.cancel(): a request, and nothing for a task that has ended *)
cancel(t) ==
    IF t.pc \in {"scheduled", "scraping"} THEN [t EXCEPT !.must_cancel = TRUE] ELSE t

stop_job(job_id) ==
    /\ ret = NoRet
    /\ IF stop_job_not_running(job_id)
       THEN /\ ret' = [op |-> "stop_job", job |-> job_id, value |-> "False"]
            /\ UNCHANGED <<tasks, stop_waiters>>
       ELSE IF job_id \notin active_jobs
       THEN /\ ret' = [op |-> "stop_job", job |-> job_id, value |-> "KeyError"]
            /\ UNCHANGED <<tasks, stop_waiters>>
       ELSE /\ stop_waiters[job_id] < MaxStops
            /\ tasks' = [tasks EXCEPT ![job_id] = cancel(@)]
            /\ stop_waiters' = [stop_waiters EXCEPT ![job_id] = @ + 1]
            /\ ret' = NoRet
    /\ UNCHANGED <<db_jobs, active_jobs>>
    /\ UNCHANGED <<fb_vars, rq_vars, run_vars, lim_vars>>

await_task_returns_at_once(t) == TRUE

(* try: await task / except asyncio.CancelledError: pass -- the caller
   resumes once the task has ended, by returning or by CancelledError *)
await_task(t) == t.pc \in {"done", "cancelled"}

(* `await task` is over: del self.active_jobs[job_id] (KeyError when the
   entry is gone), then status cancelled, then return True *)
stop_job_resume(job_id) ==
    /\ ret = NoRet
    /\ job_id \in DOMAIN tasks
    /\ stop_waiters[job_id] > 0
    /\ await_task(tasks[job_id])
    /\ stop_waiters' = [stop_waiters EXCEPT ![job_id] = @ - 1]
    /\ IF job_id \notin active_jobs
       THEN /\ ret' = [op |-> "stop_job", job |-> job_id, value |-> "KeyError"]
            /\ UNCHANGED <<db_jobs, active_jobs>>
       ELSE /\ active_jobs' = active_jobs \ {job_id}
            /\ db_jobs' = update_job_status(db_jobs, job_id, "cancelled",
                                            [completed_at |-> utcnow])
            /\ ret' = [op |-> "stop_job", job |-> job_id, value |-> "True"]
    /\ UNCHANGED tasks
    /\ UNCHANGED <<fb_vars, rq_vars, run_vars, lim_vars>>

(* DatabaseManager.get_job_status: the row, or None *)
db_get_job_status(jobs, job_id) ==
    IF job_id \in DOMAIN jobs THEN jobs[job_id] ELSE None

is_running_from_status(job_id) == db_jobs[job_id].status = "running"

(* is_running = job_id in self.active_jobs *)
is_running(job_id) == job_id \in active_jobs

(* get_job_status as bound (manager.py 478-499; 343-364 is the same text).
   Of the keys of the returned dict, target and created_at are left out:
   they are written once by save_job and the model does not carry them. *)
get_job_status(job_id) ==
    /\ ret = NoRet
    /\ IF job_id \notin DOMAIN db_jobs
       THEN ret' = [op |-> "get_job_status", job |-> job_id, value |-> None]
       ELSE LET job_data == db_get_job_status(db_jobs, job_id)
            IN  ret' = [op |-> "get_job_status", job |-> job_id, value |-> "dict",
                        dict |-> [job_id |-> job_id,
                                  platform |-> job_data.platform,
                                  status |-> job_data.status,
                                  is_running |-> is_running(job_id),
                                  started_at |-> job_data.started_at,
                                  completed_at |-> job_data.completed_at,
                                  posts_scraped |-> job_data.posts_scraped,
                                  comments_scraped |-> job_data.comments_scraped,
                                  success |-> job_data.success,
                                  errors |-> job_data.errors]]
    /\ UNCHANGED <<db_jobs, active_jobs, tasks, stop_waiters>>
    /\ UNCHANGED <<fb_vars, rq_vars, run_vars, lim_vars>>

(* the rows cleanup_old_jobs selects: a terminal status and completed_at
   before the cutoff; a row whose completed_at is unset is never selected *)
old_jobs(jobs, before_cutoff) ==
    {j \in DOMAIN jobs : /\ jobs[j].status \in Terminal
                         /\ jobs[j].completed_at # None
                         /\ j \in before_cutoff}

(* cleanup_old_jobs (manager.py 620-635).  The model has no clock:
   before_cutoff is the set of jobs that ended more than `days` days ago. *)
cleanup_old_jobs(before_cutoff) ==
    /\ ret = NoRet
    /\ db_jobs' = [j \in DOMAIN db_jobs \ old_jobs(db_jobs, before_cutoff)
                      |-> db_jobs[j]]
    /\ ret' = [op |-> "cleanup_old_jobs", job |-> 0, value |-> None]
    /\ UNCHANGED <<active_jobs, tasks, stop_waiters>>
    /\ UNCHANGED <<fb_vars, rq_vars, run_vars, lim_vars>>

(* the caller has its answer *)
returned ==
    /\ ret # NoRet
    /\ ret' = NoRet
    /\ UNCHANGED <<db_jobs, active_jobs, tasks, stop_waiters>>
    /\ UNCHANGED <<fb_vars, rq_vars, run_vars, lim_vars>>

(***************************************************************************)
(* __aexit__ (manager.py 71-89) with jobs in the active table (SpecExit).  *)
(* Lines 82-89 iterate self.active_jobs.items() and suspend at `await      *)
(* task` inside the loop.  A dict iterator remembers the size the dict had *)
(* when the iterator was made (di_used) and its next step raises           *)
(* RuntimeError when the size has changed.  Entries are visited in         *)
(* insertion order, which is the order of the job ids.                     *)
(***************************************************************************)
(* task.done() *)
done(t) == t.pc \in {"done", "cancelled"}

(* the test a dict iterator makes on every step *)
dict_changed_size(di_used, d) == di_used # Cardinality(d)

(* line 82 to the next suspension: the for statement steps through the
   entries without suspending until it meets a task that is not done, which
   is cancelled and awaited (83-86), or until the iterator raises or is
   exhausted.  di_used and pos are the iterator's: the size it remembers
   and the last entry it gave. *)
aexit_for(di_used, pos) ==
    LET pending == {j \in active_jobs : j > pos /\ ~done(tasks[j])}
    IN  IF dict_changed_size(di_used, active_jobs)
        THEN /\ aexit' = [pc |-> "raised", di_used |-> di_used, pos |-> pos]
             /\ ret' = [op |-> "__aexit__", value |-> "RuntimeError"]
             /\ UNCHANGED tasks
        ELSE IF pending = {}
        THEN /\ aexit' = [pc |-> "returned", di_used |-> di_used, pos |-> pos]
             /\ ret' = [op |-> "__aexit__", value |-> None]
             /\ UNCHANGED tasks
        ELSE LET job_id == CHOOSE j \in pending : \A k \in pending : j <= k
             IN  /\ aexit' = [pc |-> "await", di_used |-> di_used, pos |-> job_id]
                 /\ tasks' = [tasks EXCEPT ![job_id] = cancel(@)]
                 /\ ret' = NoRet

(* lines 73-82: the scrapers have been closed (each failure is logged);
   the for statement makes the iterator and takes its first steps *)
aexit_begin ==
    /\ ret = NoRet
    /\ aexit.pc = "idle"
    /\ aexit_for(Cardinality(active_jobs), 0)
    /\ UNCHANGED <<db_jobs, active_jobs, stop_waiters>>
    /\ UNCHANGED <<strategies, init_args, info>>
    /\ UNCHANGED <<fb_pc, fb_args, strategies_to_try, fb_idx, posts,
                   last_error, attempted, fb_result>>
    /\ UNCHANGED <<rq_vars, run_vars, lim_vars>>

(* lines 86-89: `await task` is over (CancelledError is passed over), and
   the for statement goes on *)
aexit_resume ==
    /\ ret = NoRet
    /\ aexit.pc = "await"
    /\ await_task(tasks[aexit.pos])
    /\ aexit_for(aexit.di_used, aexit.pos)
    /\ UNCHANGED <<db_jobs, active_jobs, stop_waiters>>
    /\ UNCHANGED <<strategies, init_args, info>>
    /\ UNCHANGED <<fb_pc, fb_args, strategies_to_try, fb_idx, posts,
                   last_error, attempted, fb_result>>
    /\ UNCHANGED <<rq_vars, run_vars, lim_vars>>

(* the manager before __aenter__, and three of the registries
   _init_reddit_scrapers can leave behind *)
Registries ==
    {[p \in {} |-> <<>>]} \cup
    {[p \in {"reddit"} |-> init_reddit_scrapers(e, ok)] :
        e \in BOOLEAN, ok \in {[s \in {"api", "web", "feed"} |-> FALSE],
                               [s \in {"api", "web", "feed"} |-> TRUE]}}

InitJobs ==
    /\ strategies \in Registries
    /\ FbIdle
    /\ JobsIdle
    /\ RqIdle
    /\ RunIdle
    /\ LimIdle

NextJobs ==
    \/ create_job
    \/ create_job_first
    \/ \E job_id \in JobIds : start_job(job_id)
    \/ \E job_id \in JobIds : stop_job(job_id)
    \/ \E job_id \in JobIds : stop_job_resume(job_id)
    \/ \E job_id \in JobIds : get_job_status(job_id)
    \/ \E before_cutoff \in SUBSET JobIds : cleanup_old_jobs(before_cutoff)
    \/ \E job_id \in JobIds : task_start(job_id)
    \/ \E job_id \in JobIds : task_attempt(job_id)
    \/ \E job_id \in JobIds : task_cancelled(job_id)
    \/ returned

SpecJobs == InitJobs /\ [][NextJobs]_vars

(* the event loop: a task that is ready to run is run, a caller whose await
   is over is resumed, a call that has returned is handed to its caller.
   Calls into the manager are the caller's choice and are under no fairness. *)
EventLoop ==
    \/ \E job_id \in JobIds : task_start(job_id)
    \/ \E job_id \in JobIds : task_attempt(job_id)
    \/ \E job_id \in JobIds : task_cancelled(job_id)
    \/ \E job_id \in JobIds : stop_job_resume(job_id)

SpecJobsFair == SpecJobs /\ WF_vars(EventLoop) /\ WF_vars(returned)

(* the manager's calls and tasks while it is left: jobs are created before
   __aexit__ begins *)
NextExit ==
    \/ aexit.pc = "idle" /\ create_job_first
    \/ returned
    \/ \E job_id \in JobIds : task_start(job_id)
    \/ \E job_id \in JobIds : task_attempt(job_id)
    \/ \E job_id \in JobIds : task_cancelled(job_id)
    \/ aexit_begin
    \/ aexit_resume

SpecExit == InitJobs /\ [][NextExit]_vars

(***************************************************************************)
(* BaseScraper._make_request (SpecRetry), base.py 83-106.                  *)
(*                                                                         *)
(* The function body (88-106) is one attempt: rate_limiter.acquire(), then *)
(* session.get, raise_for_status and the read of the body.  The decorator  *)
(* (83-87) is tenacity's retry loop around it: after an attempt that       *)
(* raised, `retry` decides whether the exception is one to retry on,       *)
(* `stop` whether the attempts are used up, `wait` how long to sleep.      *)
(* reraise is not set, so a stop raises tenacity.RetryError holding the    *)
(* last attempt.                                                           *)
(***************************************************************************)
stop_after_attempt == 3

HttpStatus == {200, 401, 403, 404, 500}

(* what the network does with one session.get: no connection, no answer in
   time, or a response *)
Network ==
    {[kind |-> k, status |-> 0, content_type |-> None, body |-> None] :
        k \in {"connection_error", "timeout"}}
    \cup
    {[kind |-> "response", status |-> st, content_type |-> ct, body |-> b] :
        st \in HttpStatus, ct \in {"application/json", "text/html"},
        b \in {"valid", "malformed"}}

Returns(v) == [exc |-> None, status |-> 0, value |-> v]
Raises(e, st) == [exc |-> e, status |-> st, value |-> None]

(* response.raise_for_status() *)
raise_for_status(status) == status >= 400

(* lines 92-106: how one attempt ends.  Both except clauses log and
   re-raise, so the exception leaves the function as it was raised. *)
make_request_body(net) ==
    IF net.kind = "connection_error" THEN Raises("ClientConnectionError", 0)
    ELSE IF net.kind = "timeout" THEN Raises("TimeoutError", 0)
    ELSE IF raise_for_status(net.status)
         THEN Raises("ClientResponseError", net.status)
    ELSE IF net.content_type = "application/json"
         THEN IF net.body = "valid" THEN Returns("json")
              ELSE Raises("JSONDecodeError", 0)
    ELSE Returns("text")

(* retry=retry_if_exception_type((aiohttp.ClientError, asyncio.TimeoutError)) *)
retry_if_exception_type(outcome) ==
    /\ outcome.exc # None
    /\ isinstance(outcome.exc, {"ClientError", "TimeoutError"})

stop_one_attempt_late(attempt_number) == attempt_number > stop_after_attempt

stop_one_attempt_early(attempt_number) == attempt_number + 1 >= stop_after_attempt

(* stop=stop_after_attempt(3) *)
stop(attempt_number) == attempt_number >= stop_after_attempt

Max(a, b) == IF a > b THEN a ELSE b

(* wait=wait_exponential(multiplier=1, min=4, max=10) *)
wait_exponential(attempt_number) ==
    Max(4, Min(1 * 2 ^ (attempt_number - 1), 10))

(* the adapters that fetch through self._make_request: RedditWebScraper
   (reddit_web_scraper.py 53, 107, 150, 283) and RedditFeedScraper
   (reddit_feed_scraper.py 54) *)
UsesMakeRequest == {"web", "feed"}

(* an adapter's scrape_posts, scrape_search or scrape_comments calls
   self._make_request(url): the call enters the decorated function *)
make_request_call ==
    /\ rq_pc = "idle"
    /\ rq_pc' = "acquire"
    /\ \E strategy \in UsesMakeRequest : rq_caller' = strategy
    /\ rq_net' = <<"_make_request">>
    /\ UNCHANGED <<rq_attempts, rq_acquired, rq_waits, rq_result>>
    /\ UNCHANGED <<fb_vars, job_vars, run_vars, lim_vars>>

(* line 90: await self.rate_limiter.acquire() has completed *)
acquire ==
    /\ rq_pc = "acquire"
    /\ rq_acquired' = rq_acquired + 1
    /\ rq_pc' = "get"
    /\ rq_net' = Append(rq_net, "acquire")
    /\ UNCHANGED <<rq_attempts, rq_waits, rq_result, rq_caller>>
    /\ UNCHANGED <<fb_vars, job_vars, run_vars, lim_vars>>

(* lines 92-106 and the decorator's decision on the attempt's outcome *)
make_request_attempt ==
    /\ rq_pc = "get"
    /\ \E net \in Network :
        LET outcome == make_request_body(net)
            attempt_number == Len(rq_attempts) + 1
        IN  /\ rq_attempts' = Append(rq_attempts, outcome)
            /\ IF outcome.exc = None
               THEN /\ rq_pc' = "returned"
                    /\ rq_result' = [kind |-> "return", value |-> outcome.value]
               ELSE IF ~retry_if_exception_type(outcome)
               THEN /\ rq_pc' = "raised"
                    /\ rq_result' = [kind |-> "raise", exc |-> outcome.exc,
                                     status |-> outcome.status]
               ELSE IF stop(attempt_number)
               THEN /\ rq_pc' = "raised"
                    /\ rq_result' = [kind |-> "raise", exc |-> "RetryError",
                                     last_attempt |-> outcome]
               ELSE /\ rq_pc' = "sleep"
                    /\ UNCHANGED rq_result
    /\ rq_net' = Append(rq_net, "get")
    /\ UNCHANGED <<rq_acquired, rq_waits, rq_caller>>
    /\ UNCHANGED <<fb_vars, job_vars, run_vars, lim_vars>>

(* tenacity sleeps, then calls the function again *)
retry_sleep ==
    /\ rq_pc = "sleep"
    /\ rq_waits' = Append(rq_waits, wait_exponential(Len(rq_attempts)))
    /\ rq_pc' = "acquire"
    /\ UNCHANGED <<rq_attempts, rq_acquired, rq_result, rq_caller, rq_net>>
    /\ UNCHANGED <<fb_vars, job_vars, run_vars, lim_vars>>

(* the caller has the value or the exception; the scraper can be called again *)
make_request_done ==
    /\ rq_pc \in {"returned", "raised"}
    /\ rq_pc' = "idle"
    /\ rq_attempts' = <<>>
    /\ rq_acquired' = 0
    /\ rq_waits' = <<>>
    /\ rq_result' = NoResult
    /\ rq_caller' = None
    /\ rq_net' = <<>>
    /\ UNCHANGED <<fb_vars, job_vars, run_vars, lim_vars>>

InitRetry ==
    /\ strategies = [p \in {} |-> <<>>]
    /\ FbIdle
    /\ JobsIdle
    /\ RqIdle
    /\ RunIdle
    /\ LimIdle

NextRetry ==
    \/ make_request_call
    \/ acquire
    \/ make_request_attempt
    \/ retry_sleep
    \/ make_request_done

SpecRetry == InitRetry /\ [][NextRetry]_vars

(***************************************************************************)
(* Health checks (SpecHealth): BaseScraper.health_check (base.py 203-210), *)
(* inherited by every adapter, and EnhancedScraperManager.health_check     *)
(* (manager.py 561-573).                                                   *)
(***************************************************************************)
(* line 206: await self._make_request("https://httpbin.org/status/200") *)
health_check_call ==
    /\ rq_pc = "idle"
    /\ rq_pc' = "acquire"
    /\ rq_caller' = "health_check"
    /\ rq_net' = <<"_make_request">>
    /\ UNCHANGED <<rq_attempts, rq_acquired, rq_waits, rq_result>>
    /\ UNCHANGED <<fb_vars, job_vars, run_vars, lim_vars>>

(* lines 205-210: what health_check gives its caller for an outcome of
   the probe *)
health_check(probe) ==
    IF probe.kind = "return"
    THEN [kind |-> "return", value |-> TRUE, probe |-> probe]
    ELSE IF except_Exception_catches(probe.exc)
    THEN [kind |-> "return", value |-> FALSE, probe |-> probe]
    ELSE [kind |-> "raise", exc |-> probe.exc, probe |-> probe]

health_check_return ==
    /\ rq_pc \in {"returned", "raised"}
    /\ rq_caller = "health_check"
    /\ rq_pc' = "health_check_returned"
    /\ rq_result' = health_check(rq_result)
    /\ UNCHANGED <<rq_attempts, rq_acquired, rq_waits, rq_caller, rq_net>>
    /\ UNCHANGED <<fb_vars, job_vars, run_vars, lim_vars>>

(* the caller has the boolean; the adapter can be asked again *)
health_check_done ==
    /\ rq_pc = "health_check_returned"
    /\ rq_pc' = "idle"
    /\ rq_attempts' = <<>>
    /\ rq_acquired' = 0
    /\ rq_waits' = <<>>
    /\ rq_result' = NoResult
    /\ rq_caller' = None
    /\ rq_net' = <<>>
    /\ UNCHANGED <<fb_vars, job_vars, run_vars, lim_vars>>

(* manager.py 561-573.  Line 565 reads self.scrapers, which __init__
   (22-24) does not set and nothing else assigns: the loop header raises
   AttributeError and lines 566-573 are never reached. *)
manager_health_check ==
    /\ ret = NoRet
    /\ ret' = [op |-> "health_check", value |-> "AttributeError"]
    /\ UNCHANGED <<db_jobs, active_jobs, tasks, stop_waiters>>
    /\ UNCHANGED <<fb_vars, rq_vars, run_vars, lim_vars>>

NextHealth ==
    \/ aenter
    \/ manager_health_check
    \/ returned
    \/ health_check_call
    \/ acquire
    \/ make_request_attempt
    \/ retry_sleep
    \/ health_check_return
    \/ health_check_done

SpecHealth == Init /\ [][NextHealth]_vars

(***************************************************************************)
(* The fetches of the three adapters (SpecFetch).  RedditWebScraper and    *)
(* RedditFeedScraper fetch through self._make_request.  RedditScraper, the *)
(* API adapter, fetches through praw: iterating subreddit.hot(limit=...),  *)
(* submission.comments or search(...) makes praw send the requests.  Its   *)
(* methods call neither self._make_request nor self.rate_limiter.          *)
(***************************************************************************)
(* reddit_scraper.py 57-93 (scrape_posts), 104-128 (scrape_comments),
   258-292 (search_posts): praw sends the request; an error of the listing
   is logged and re-raised by the outer except clause *)
reddit_api_fetch ==
    /\ rq_pc = "idle"
    /\ rq_caller' = "api"
    /\ rq_net' = <<"get">>
    /\ \E fails \in BOOLEAN :
          IF fails
          THEN /\ rq_pc' = "raised"
               /\ rq_result' = [kind |-> "raise", exc |-> "PrawException",
                                status |-> 0]
          ELSE /\ rq_pc' = "returned"
               /\ rq_result' = [kind |-> "return", value |-> "listing"]
    /\ UNCHANGED <<rq_attempts, rq_acquired, rq_waits>>
    /\ UNCHANGED <<fb_vars, job_vars, run_vars, lim_vars>>

NextFetch ==
    \/ reddit_api_fetch
    \/ make_request_call
    \/ acquire
    \/ make_request_attempt
    \/ retry_sleep
    \/ make_request_done

SpecFetch == InitRetry /\ [][NextFetch]_vars

(***************************************************************************)
(* scrape_search_with_fallback (SpecSearch), manager.py 160-216.           *)
(* The call uses the locals of scrape_with_fallback's model: its loop      *)
(* (194-214) is the loop of scrape_with_fallback with scrape_search in     *)
(* place of scrape_posts.                                                  *)
(***************************************************************************)
has_scrape_search_api_too(strategy) == strategy \in {"api", "web", "feed"}

(* hasattr(scraper, 'scrape_search'): RedditWebScraper and RedditFeedScraper
   define the method; RedditScraper (API) defines search_posts instead. *)
has_scrape_search(strategy) == strategy \in {"web", "feed"}

(* lines 174-179: the registered strategies that pass the hasattr test, in
   the key order of the registry *)
search_capable(available) == SelectSeq(available, has_scrape_search)

(* lines 184-191 *)
search_order(capable, preferred_strategy) ==
    IF preferred_strategy # None /\ InSeq(preferred_strategy, capable)
    THEN <<preferred_strategy>> \o
         SelectSeq(capable, LAMBDA s : s # preferred_strategy)
    ELSE capable

(* scrape_search of an adapter.  RedditFeedScraper.scrape_search returns at
   once without yielding or raising; RedditWebScraper.scrape_search yields
   at most max_posts of the items it got and may raise. *)
scrape_search(strategy, outcome, max_posts) ==
    IF strategy = "feed" THEN <<>>
    ELSE [i \in 1..Min(outcome.items, max_posts) |-> <<strategy, i>>]

scrape_search_throws(strategy, outcome) ==
    strategy # "feed" /\ outcome.throws

scrape_search_with_fallback_call ==
    /\ fb_pc = "idle"
    /\ \E platform \in Platform :
       \E max_posts \in 0..MaxPostsArg :
       \E preferred_strategy \in ScrapingStrategy \cup {None} :
       \E outcome \in [{"api", "web", "feed"} -> Outcome] :
          /\ fb_args' = [platform |-> platform, max_posts |-> max_posts,
                         preferred_strategy |-> preferred_strategy,
                         outcome |-> outcome]
          /\ attempted' = <<>>
          /\ posts' = <<>>
          /\ last_error' = NoError
          /\ fb_idx' = 1
          /\ IF platform \notin DOMAIN strategies
             THEN /\ fb_pc' = "raised"
                  /\ fb_result' = [error |-> "ValueError: No scrapers available"]
                  /\ strategies_to_try' = <<>>
             ELSE IF search_capable(strategies[platform]) = <<>>
             THEN /\ fb_pc' = "raised"
                  /\ fb_result' = [error |-> "ValueError: No search-capable scrapers available"]
                  /\ strategies_to_try' = <<>>
             ELSE /\ strategies_to_try' =
                        search_order(search_capable(strategies[platform]),
                                     preferred_strategy)
                  /\ fb_pc' = "trying"
                  /\ fb_result' = None
    /\ UNCHANGED reg_vars
    /\ UNCHANGED <<job_vars, rq_vars, run_vars, lim_vars>>

scrape_search_with_fallback_attempt ==
    /\ fb_pc = "trying"
    /\ LET strategy == strategies_to_try[fb_idx]
           outcome  == fb_args.outcome[strategy]
           drained  == drain(posts, scrape_search(strategy, outcome, fb_args.max_posts))
           threw    == scrape_search_throws(strategy, outcome)
           error    == except_Exception(last_error, strategy, threw)
       IN  /\ attempted' = Append(attempted, strategy)
           /\ posts' = drained
           /\ last_error' = error
           /\ IF after_attempt(drained, threw) = "return"
              THEN /\ fb_pc' = "returned"
                   /\ fb_result' = [posts |-> drained]
                   /\ fb_idx' = fb_idx
              ELSE IF fb_idx < Len(strategies_to_try)
              THEN /\ fb_pc' = "trying"
                   /\ fb_idx' = fb_idx + 1
                   /\ fb_result' = fb_result
              ELSE /\ fb_pc' = "raised"
                   /\ fb_idx' = fb_idx
                   /\ fb_result' = [error |-> "Exception: All search strategies failed",
                                    last_error |-> error]
    /\ UNCHANGED <<reg_vars, fb_args, strategies_to_try>>
    /\ UNCHANGED <<job_vars, rq_vars, run_vars, lim_vars>>

NextSearch ==
    \/ aenter
    \/ scrape_search_with_fallback_call
    \/ scrape_search_with_fallback_attempt
    \/ scrape_with_fallback_done

SpecSearch == Init /\ [][NextSearch]_vars

(***************************************************************************)
(* get_strategy_info (SpecInfo), manager.py 224-243.                       *)
(***************************************************************************)
(* hasattr(scraper, 'scrape_comments'): the three adapter classes each
   define it (reddit_scraper.py 95, reddit_web_scraper.py 135,
   reddit_feed_scraper.py 100 and 111) *)
has_scrape_comments(strategy) == strategy \in {"api", "web", "feed"}

class_name(strategy) ==
    CASE strategy = "api"  -> "RedditScraper"
      [] strategy = "web"  -> "RedditWebScraper"
      [] strategy = "feed" -> "RedditFeedScraper"

(* lines 235-241: the details reported for one registered adapter *)
strategy_details(strategy) ==
    [name |-> strategy,
     requires_auth |-> (strategy = "api"),
     supports_search |-> has_scrape_search(strategy),
     supports_comments |-> has_scrape_comments(strategy),
     class |-> class_name(strategy)]

get_strategy_info ==
    /\ fb_pc = "idle"
    /\ info' = [asked |-> TRUE,
                platforms |->
                  [p \in DOMAIN strategies |->
                     [available_strategies |-> strategies[p],
                      strategy_details |->
                         [st \in SeqToSet(strategies[p]) |-> strategy_details(st)]]]]
    /\ UNCHANGED <<strategies, init_args, aexit>>
    /\ UNCHANGED <<fb_pc, fb_args, strategies_to_try, fb_idx, posts,
                   last_error, attempted, fb_result>>
    /\ UNCHANGED <<job_vars, rq_vars, run_vars, lim_vars>>

NextInfo ==
    \/ aenter
    \/ get_strategy_info

SpecInfo == Init /\ [][NextInfo]_vars

(***************************************************************************)
(* RateLimiter (SpecLimiter), base.py 19-27.                               *)
(*                                                                         *)
(* RateLimiter(requests_per_window, window_seconds) holds an               *)
(* aiolimiter.AsyncLimiter(max_rate, time_period) and acquire() awaits its *)
(* acquire().  AsyncLimiter is a leaky bucket: it starts empty, holds at   *)
(* most max_rate, leaks max_rate / time_period per second, and an acquire  *)
(* completes by adding 1 to the level as soon as level + 1 <= max_rate.    *)
(* Time advances in ticks of time_period / max_rate, the time in which the *)
(* bucket leaks 1; the window of time_period is max_rate ticks.            *)
(***************************************************************************)
MaxRate == 3        \* largest requests_per_window a limiter is built with

(* AsyncLimiter._leak after `elapsed` ticks *)
leak(level, elapsed) == Max(level - elapsed, 0)

(* AsyncLimiter.has_capacity *)
has_capacity(level, max_rate, amount) == level + amount <= max_rate

(* RateLimiter.acquire by caller c: it completes when the bucket has room,
   and waits otherwise (a waiting caller tries again when woken) *)
limiter_acquire(c) ==
    /\ IF has_capacity(lim_level, lim_max_rate, 1)
       THEN /\ lim_level' = lim_level + 1
            /\ lim_callers' = [lim_callers EXCEPT ![c] = "idle"]
            /\ lim_window' = [lim_window EXCEPT ![0] = @ + 1]
       ELSE /\ lim_callers' = [lim_callers EXCEPT ![c] = "waiting"]
            /\ UNCHANGED <<lim_level, lim_window>>
    /\ UNCHANGED lim_max_rate
    /\ UNCHANGED <<fb_vars, job_vars, rq_vars, run_vars>>

(* one tick of time passes *)
limiter_tick ==
    /\ lim_level' = leak(lim_level, 1)
    /\ lim_window' = [a \in DOMAIN lim_window |->
                         IF a = 0 THEN 0 ELSE lim_window[a - 1]]
    /\ UNCHANGED <<lim_max_rate, lim_callers>>
    /\ UNCHANGED <<fb_vars, job_vars, rq_vars, run_vars>>

InitLimiter ==
    /\ strategies = [p \in {} |-> <<>>]
    /\ FbIdle
    /\ JobsIdle
    /\ RqIdle
    /\ RunIdle
    /\ lim_max_rate \in 1..MaxRate
    /\ lim_level = 0
    /\ lim_callers = [c \in Callers |-> "idle"]
    /\ lim_window = [a \in 0..(lim_max_rate - 1) |-> 0]

NextLimiter ==
    \/ \E c \in Callers : limiter_acquire(c)
    \/ limiter_tick

SpecLimiter == InitLimiter /\ [][NextLimiter]_vars

(***************************************************************************)
(* The two job procedures, one job at a time (SpecRun):                    *)
(*   EnhancedScraperManager._run_job_with_fallback   manager.py 279-324    *)
(*   BaseScraper.run_scraping_job                    base.py 118-196       *)
(* SpecJobs has the first as a task among other tasks and calls; here each *)
(* procedure is followed post by post, with the job's keywords, the rows   *)
(* save_post stores and the error list.  The job is job 1, saved as        *)
(* pending by create_job; the post source is the WEB adapter.  The table   *)
(* of posts may already hold a post stored by an earlier job.              *)
(***************************************************************************)
MaxComments == 2    \* most comments scrape_comments yields for one post

CommentOutcome == [items : 0..MaxComments, throws : BOOLEAN]

(* what the procedure of run_args will get from its source of posts *)
Fetched == scrape_posts("web", run_args.source, db_jobs[1].max_posts)

Comment(post, k) == <<"comment", post[2], k>>

(* DatabaseManager.save_post adds a row and commits: it raises when the
   table has a row with this id, and it can raise for the database's own
   reasons.  The set of its possible results (TRUE: stored). *)
save_post_outcomes(post) == IF post \in db_posts THEN {FALSE} ELSE BOOLEAN

NoComments == [items |-> 0, throws |-> FALSE]

(* i: the post the loop is at; k: the comment of that post the inner loop
   is at, 0 outside the inner loop; comments: what scrape_comments gives for
   that post; log: the rows stored by this procedure, in the order stored;
   drained: the posts whose comments the inner loop has been through;
   comment_failed: the comments save_post refused *)
StartLocals ==
    [i |-> 1, k |-> 0, comments |-> NoComments,
     posts_scraped |-> 0, comments_scraped |-> 0, errors |-> <<>>,
     saved |-> {}, save_failed |-> {}, log |-> <<>>, drained |-> {},
     comment_failed |-> {}, raised |-> None]

(* the job as create_job saved it, then the procedure's first statement:
   update_job_status(job_id, "running", started_at=...) *)
run_begin(proc) ==
    /\ run_pc = "idle"
    /\ \E keywords \in Keywords, include_comments \in BOOLEAN, source \in Outcome :
          /\ run_args' = [proc |-> proc, source |-> source]
          /\ db_jobs' = update_job_status(
                            save_job(db_jobs, 1,
                                ScrapingJobDB("reddit", MaxPostsArg,
                                              include_comments, keywords)),
                            1, "running", [started_at |-> utcnow])
    /\ run_locals' = StartLocals
    /\ run_pc' = IF proc = "manager" THEN "fetching" ELSE "iterating"
    /\ UNCHANGED db_posts
    /\ UNCHANGED <<active_jobs, tasks, stop_waiters, ret>>
    /\ UNCHANGED <<fb_vars, rq_vars, lim_vars>>

(* manager.py 285-290 and 312-320: scrape_with_fallback returns the posts
   of the strategy, or raises when it raised or yielded nothing *)
run_job_with_fallback_fetch ==
    /\ run_pc = "fetching"
    /\ IF after_attempt(Fetched, run_args.source.throws) = "return"
       THEN /\ run_pc' = "iterating"
            /\ UNCHANGED <<db_jobs, run_locals>>
       ELSE LET e == "Exception: All scraping strategies failed"
            IN  /\ db_jobs' = job_failed(db_jobs, 1, e)
                /\ run_locals' = [run_locals EXCEPT !.raised = e]
                /\ run_pc' = "done"
    /\ UNCHANGED <<run_args, db_posts>>
    /\ UNCHANGED <<active_jobs, tasks, stop_waiters, ret>>
    /\ UNCHANGED <<fb_vars, rq_vars, lim_vars>>

(* manager.py 292-299: one iteration of `for post in posts` *)
run_job_with_fallback_save ==
    /\ run_pc = "iterating"
    /\ run_args.proc = "manager"
    /\ run_locals.i <= Len(Fetched)
    /\ LET post == Fetched[run_locals.i]
       IN  \E stored \in save_post_outcomes(post) :
              IF stored
              THEN /\ db_posts' = db_posts \cup {post}
                   /\ run_locals' = [run_locals EXCEPT !.i = @ + 1,
                                         !.posts_scraped = @ + 1,
                                         !.saved = @ \cup {post},
                                         !.log = Append(@, post)]
              ELSE /\ UNCHANGED db_posts
                   /\ run_locals' = [run_locals EXCEPT !.i = @ + 1,
                                         !.save_failed = @ \cup {post}]
    /\ UNCHANGED <<run_pc, run_args, db_jobs>>
    /\ UNCHANGED <<active_jobs, tasks, stop_waiters, ret>>
    /\ UNCHANGED <<fb_vars, rq_vars, lim_vars>>

(* manager.py 301-308 *)
run_job_with_fallback_completed ==
    /\ run_pc = "iterating"
    /\ run_args.proc = "manager"
    /\ run_locals.i > Len(Fetched)
    /\ db_jobs' = update_job_status(db_jobs, 1, "completed",
                      [completed_at |-> utcnow,
                       posts_scraped |-> run_locals.posts_scraped,
                       success |-> TRUE])
    /\ run_pc' = "done"
    /\ UNCHANGED <<run_args, run_locals, db_posts>>
    /\ UNCHANGED <<active_jobs, tasks, stop_waiters, ret>>
    /\ UNCHANGED <<fb_vars, rq_vars, lim_vars>>

(* base.py 139-140: the post is processed unless the job has keywords and
   none of them is in the post's content *)
keep_post(job, post) ==
    ~(job.keywords # <<>> /\ ~matches_keywords(content(post), job.keywords))

(* base.py 136-147 and 161-163: the top of one iteration of
   `async for post in self.scrape_posts`: the keyword filter and save_post;
   when the job asks for comments the inner loop is entered *)
run_scraping_job_post ==
    /\ run_pc = "iterating"
    /\ run_args.proc = "base"
    /\ run_locals.i <= Len(Fetched)
    /\ run_locals.k = 0
    /\ LET post == Fetched[run_locals.i]
           job  == db_jobs[1]
       IN  IF ~keep_post(job, post)
           THEN /\ run_locals' = [run_locals EXCEPT !.i = @ + 1]
                /\ UNCHANGED db_posts
           ELSE \E stored \in save_post_outcomes(post) :
                  IF ~stored
                  THEN /\ run_locals' = [run_locals EXCEPT !.i = @ + 1,
                              !.errors = Append(@, "Post processing error"),
                              !.save_failed = @ \cup {post}]
                       /\ UNCHANGED db_posts
                  ELSE /\ db_posts' = db_posts \cup {post}
                       /\ IF ~job.include_comments
                          THEN run_locals' = [run_locals EXCEPT !.i = @ + 1,
                                   !.posts_scraped = @ + 1,
                                   !.saved = @ \cup {post},
                                   !.log = Append(@, post)]
                          ELSE \E c \in CommentOutcome :
                                  run_locals' = [run_locals EXCEPT !.k = 1,
                                      !.comments = c,
                                      !.posts_scraped = @ + 1,
                                      !.saved = @ \cup {post},
                                      !.log = Append(@, post)]
    /\ UNCHANGED <<run_pc, run_args, db_jobs>>
    /\ UNCHANGED <<active_jobs, tasks, stop_waiters, ret>>
    /\ UNCHANGED <<fb_vars, rq_vars, lim_vars>>

yielded_comment_last_first(post, c, k) == Comment(post, c.items - k + 1)

(* the k-th comment `async for comment in self.scrape_comments(post.id)`
   hands to the loop body is the k-th the adapter yields *)
yielded_comment(post, c, k) == Comment(post, k)

(* base.py 149-163: one step of the inner loop over the comments of the
   post at i.  A comment is saved without a look at the job's keywords; a
   failed save is recorded (154-156) and the loop goes on.  When the
   adapter's sequence is over the iteration ends, through the outer except
   clause (161-163) when the sequence ended by raising. *)
run_scraping_job_comment ==
    /\ run_pc = "iterating"
    /\ run_args.proc = "base"
    /\ run_locals.k >= 1
    /\ LET post == Fetched[run_locals.i]
           c    == run_locals.comments
           k    == run_locals.k
       IN  IF k <= c.items
           THEN LET comment == yielded_comment(post, c, k)
                IN  \E stored \in save_post_outcomes(comment) :
                       IF stored
                       THEN /\ db_posts' = db_posts \cup {comment}
                            /\ run_locals' = [run_locals EXCEPT !.k = @ + 1,
                                   !.comments_scraped = @ + 1,
                                   !.log = Append(@, comment)]
                       ELSE /\ UNCHANGED db_posts
                            /\ run_locals' = [run_locals EXCEPT !.k = @ + 1,
                                   !.errors = Append(@, "Comment save error"),
                                   !.comment_failed = @ \cup {comment}]
           ELSE /\ UNCHANGED db_posts
                /\ run_locals' = [run_locals EXCEPT !.i = @ + 1, !.k = 0,
                       !.comments = NoComments,
                       !.drained = @ \cup {post},
                       !.errors = IF c.throws
                                  THEN Append(@, "Post processing error")
                                  ELSE @]
    /\ UNCHANGED <<run_pc, run_args, db_jobs>>
    /\ UNCHANGED <<active_jobs, tasks, stop_waiters, ret>>
    /\ UNCHANGED <<fb_vars, rq_vars, lim_vars>>

(* base.py 166-194: the sequence of posts is over.  It ended normally: the
   job is completed with its counters and errors.  It ended by raising: the
   outer except clause appends "Job failed" and the job is failed. *)
run_scraping_job_end ==
    /\ run_pc = "iterating"
    /\ run_args.proc = "base"
    /\ run_locals.i > Len(Fetched)
    /\ IF run_args.source.throws
       THEN LET errors == Append(run_locals.errors, "Job failed")
            IN  /\ run_locals' = [run_locals EXCEPT !.errors = errors,
                                                   !.raised = "Job failed"]
                /\ db_jobs' = update_job_status(db_jobs, 1, "failed",
                                  [completed_at |-> utcnow, errors |-> errors])
       ELSE /\ db_jobs' = update_job_status(db_jobs, 1, "completed",
                              [posts_scraped |-> run_locals.posts_scraped,
                               comments_scraped |-> run_locals.comments_scraped,
                               completed_at |-> utcnow,
                               success |-> TRUE,
                               errors |-> run_locals.errors])
            /\ UNCHANGED run_locals
    /\ run_pc' = "done"
    /\ UNCHANGED <<run_args, db_posts>>
    /\ UNCHANGED <<active_jobs, tasks, stop_waiters, ret>>
    /\ UNCHANGED <<fb_vars, rq_vars, lim_vars>>

(* rows an earlier job may have left in the table of posts *)
EarlierPosts == {<<"web", 1>>}

InitRun ==
    /\ strategies = [p \in {"reddit"} |-> <<"web">>]
    /\ FbIdle
    /\ JobsIdle
    /\ RqIdle
    /\ LimIdle
    /\ run_pc = "idle"
    /\ run_args = NoRun
    /\ run_locals = NoLocals
    /\ db_posts \in SUBSET EarlierPosts

NextRun ==
    \/ \E proc \in {"manager", "base"} : run_begin(proc)
    \/ run_job_with_fallback_fetch
    \/ run_job_with_fallback_save
    \/ run_job_with_fallback_completed
    \/ run_scraping_job_post
    \/ run_scraping_job_comment
    \/ run_scraping_job_end

SpecRun == InitRun /\ [][NextRun]_vars

(***************************************************************************)
(* One adapter's scrape_posts, drained by scrape_with_fallback             *)
(* (SpecAdapter): reddit_web_scraper.py 49-83, reddit_feed_scraper.py      *)
(* 52-85, reddit_scraper.py 54-93, and manager.py 142-156.  The fetched    *)
(* page is a sequence of raw items; converting an item either gives a     *)
(* post or raises.  A post is <<strategy, position in the page>>.         *)
(***************************************************************************)
MaxPage == 3        \* most raw items in one fetched page

RawItem == {"ok", "bad"}

Pages == UNION {[1..n -> RawItem] : n \in 0..MaxPage}

(* what the adapter's for loop iterates: response['data']['children']
   (web 58), the praw listing (api 74), feed.entries[:max_posts] (feed 65) *)
iterated(strategy, page, max_posts) ==
    IF strategy = "feed"
    THEN SubSeq(page, 1, Min(max_posts, Len(page)))
    ELSE page

loop_break_one_late(strategy, posts_yielded, max_posts) ==
    strategy \in {"web", "api"} /\ posts_yielded > max_posts

(* `if posts_yielded >= max_posts: break` (web 59-60, api 75-76); the
   feed adapter's loop has no such test *)
loop_break(strategy, posts_yielded, max_posts) ==
    strategy \in {"web", "api"} /\ posts_yielded >= max_posts

(* manager.py 143: scraper.scrape_posts(target, max_posts) is called and
   the adapter fetches its page (web 53, feed 54, api 55-72).  fetch says
   how that ends: a page, a response without the expected key, or an
   exception, which the outer except clause re-raises. *)
scrape_posts_call ==
    /\ run_pc = "idle"
    /\ \E strategy \in {"api", "web", "feed"} :
       \E page \in Pages :
       \E max_posts \in 0..MaxPostsArg :
       \E fetch \in {"page", "no_data", "raise"} :
          /\ run_args' = [proc |-> "scrape_posts", strategy |-> strategy,
                          page |-> page, max_posts |-> max_posts,
                          fetch |-> fetch]
          /\ run_pc' = CASE fetch = "page"    -> "scrape_posts_loop"
                          [] fetch = "no_data" -> "scrape_posts_exhausted"
                          [] fetch = "raise"   -> "scrape_posts_raised"
    /\ run_locals' = [i |-> 0, posts_yielded |-> 0, posts |-> <<>>,
                      skipped |-> {}]
    /\ UNCHANGED db_posts
    /\ UNCHANGED <<fb_vars, job_vars, rq_vars, lim_vars>>

(* one iteration of the adapter's loop (web 58-73, feed 65-78, api 74-89):
   the conversion and, when it succeeds, the yield, which manager.py 144
   appends to posts; a conversion that raises is logged and the loop
   continues *)
scrape_posts_item ==
    /\ run_pc = "scrape_posts_loop"
    /\ LET strategy == run_args.strategy
           items == iterated(strategy, run_args.page, run_args.max_posts)
           i == run_locals.i + 1
       IN  IF \/ i > Len(items)
              \/ loop_break(strategy, run_locals.posts_yielded,
                            run_args.max_posts)
           THEN /\ run_pc' = "scrape_posts_exhausted"
                /\ UNCHANGED run_locals
           ELSE /\ run_pc' = "scrape_posts_loop"
                /\ IF items[i] = "ok"
                   THEN run_locals' =
                          [run_locals EXCEPT
                             !.i = i,
                             !.posts_yielded = @ + 1,
                             !.posts = Append(@, <<strategy, i>>)]
                   ELSE run_locals' =
                          [run_locals EXCEPT !.i = i,
                                             !.skipped = @ \cup {i}]
    /\ UNCHANGED <<run_args, db_posts>>
    /\ UNCHANGED <<fb_vars, job_vars, rq_vars, lim_vars>>

(* manager.py 146-156: the sequence is over; posts is returned when it is
   not empty, otherwise the next strategy is tried *)
scrape_posts_drained ==
    /\ run_pc \in {"scrape_posts_exhausted", "scrape_posts_raised"}
    /\ run_pc' = IF after_attempt(run_locals.posts,
                                  run_pc = "scrape_posts_raised") = "return"
                 THEN "scrape_posts_returned"
                 ELSE "scrape_posts_continue"
    /\ UNCHANGED <<run_args, run_locals, db_posts>>
    /\ UNCHANGED <<fb_vars, job_vars, rq_vars, lim_vars>>

scrape_posts_done ==
    /\ run_pc \in {"scrape_posts_returned", "scrape_posts_continue"}
    /\ run_pc' = "idle"
    /\ run_args' = NoRun
    /\ run_locals' = NoLocals
    /\ UNCHANGED db_posts
    /\ UNCHANGED <<fb_vars, job_vars, rq_vars, lim_vars>>

NextAdapter ==
    \/ scrape_posts_call
    \/ scrape_posts_item
    \/ scrape_posts_drained
    \/ scrape_posts_done

SpecAdapter == Init /\ [][NextAdapter]_vars

(***************************************************************************)
(* The web adapter's comment traversal (SpecComments):                     *)
(* RedditWebScraper.scrape_comments and _process_comment_tree              *)
(* (reddit_web_scraper.py 135-227).  A reply tree is given by its nodes    *)
(* numbered in document order: depth[c] is the nesting level of node c     *)
(* (1 for a top-level comment) and ok[c] says whether node c is a comment  *)
(* ('t1') with a body from which a RedditPost can be built.               *)
(***************************************************************************)
MaxNodes == 4           \* most nodes in one reply tree
MaxCommentsArg == 2     \* largest max_comments argument

Trees ==
    UNION {{[depth |-> d, ok |-> o] :
               d \in {e \in [1..n -> 1..n] :
                         \A c \in 1..n : e[c] <= (IF c = 1 THEN 1 ELSE e[c-1] + 1)},
               o \in [1..n -> BOOLEAN]} : n \in 0..MaxNodes}

RECURSIVE ascending(_)
ascending(S) ==
    IF S = {} THEN <<>>
    ELSE LET m == CHOOSE x \in S : \A y \in S : x <= y
         IN  <<m>> \o ascending(S \ {m})

(* comments_data['data']['children'] (line 158): the top-level nodes *)
children(tree) == ascending({c \in DOMAIN tree.depth : tree.depth[c] = 1})

(* comment_data['replies']['data']['children'] (line 209): the nodes one
   level below c, inside c's subtree *)
replies(tree, c) ==
    ascending({r \in DOMAIN tree.depth :
                 /\ r > c
                 /\ tree.depth[r] = tree.depth[c] + 1
                 /\ \A k \in (c+1)..r : tree.depth[k] > tree.depth[c]})

budget_spent_one_late(comments_processed, max_comments) ==
    comments_processed > max_comments

(* `if comments_processed >= max_comments: break` (186-187, 217-218) and
   `if comments_yielded >= max_comments: break` (165-166) *)
budget_spent(comments_processed, max_comments) ==
    comments_processed >= max_comments

(* lines 211-218: the loop over the replies the recursive call yields:
   each is yielded and counted, and the loop breaks when the count reaches
   max_comments.  Also lines 159-166, the loop of scrape_comments. *)
RECURSIVE yield_each(_, _, _, _)
yield_each(inner, from, comments_processed, max_comments) ==
    IF from > Len(inner) THEN <<>>
    ELSE IF budget_spent(comments_processed + 1, max_comments)
         THEN <<inner[from]>>
         ELSE <<inner[from]>> \o
              yield_each(inner, from + 1, comments_processed + 1, max_comments)

(* _process_comment_tree (177-227): the comments it yields, in order.
   from is the position in comments of the loop variable comment_item. *)
RECURSIVE process_comment_tree(_, _, _, _, _)
process_comment_tree(tree, comments, from, comments_processed, max_comments) ==
    IF from > Len(comments) THEN <<>>
    ELSE IF budget_spent(comments_processed, max_comments) THEN <<>>
    ELSE LET c == comments[from]
         IN  IF ~tree.ok[c]
             THEN process_comment_tree(tree, comments, from + 1,
                                       comments_processed, max_comments)
             ELSE LET processed == comments_processed + 1
                      inner == process_comment_tree(tree, replies(tree, c), 1, 0,
                                                    max_comments - processed)
                      below == yield_each(inner, 1, processed, max_comments)
                  IN  <<c>> \o below \o
                      process_comment_tree(tree, comments, from + 1,
                                           processed + Len(below), max_comments)

(* scrape_comments is called; the page of the post has been fetched
   (line 150) and _process_comment_tree is opened on its top level
   (159-162) *)
scrape_comments_call ==
    /\ run_pc = "idle"
    /\ \E tree \in Trees :
       \E max_comments \in 0..MaxCommentsArg :
          /\ run_args' = [proc |-> "scrape_comments", tree |-> tree,
                          max_comments |-> max_comments]
          /\ run_locals' =
                [i |-> 0, comments_yielded |-> 0, yielded |-> <<>>,
                 inner |-> process_comment_tree(tree, children(tree), 1, 0,
                                                max_comments - 0)]
    /\ run_pc' = "scrape_comments_loop"
    /\ UNCHANGED db_posts
    /\ UNCHANGED <<fb_vars, job_vars, rq_vars, lim_vars>>

(* lines 159-168: one iteration of `async for comment in
   self._process_comment_tree(...)`: yield, count, break at max_comments *)
scrape_comments_yield ==
    /\ run_pc = "scrape_comments_loop"
    /\ LET i == run_locals.i + 1
       IN  IF i > Len(run_locals.inner)
           THEN /\ run_pc' = "scrape_comments_exhausted"
                /\ UNCHANGED run_locals
           ELSE /\ run_locals' =
                      [run_locals EXCEPT
                         !.i = i,
                         !.comments_yielded = @ + 1,
                         !.yielded = Append(@, run_locals.inner[i])]
                /\ run_pc' = IF budget_spent(run_locals.comments_yielded + 1,
                                             run_args.max_comments)
                             THEN "scrape_comments_exhausted"
                             ELSE "scrape_comments_loop"
    /\ UNCHANGED <<run_args, db_posts>>
    /\ UNCHANGED <<fb_vars, job_vars, rq_vars, lim_vars>>

scrape_comments_done ==
    /\ run_pc = "scrape_comments_exhausted"
    /\ run_pc' = "idle"
    /\ run_args' = NoRun
    /\ run_locals' = NoLocals
    /\ UNCHANGED db_posts
    /\ UNCHANGED <<fb_vars, job_vars, rq_vars, lim_vars>>

NextComments ==
    \/ scrape_comments_call
    \/ scrape_comments_yield
    \/ scrape_comments_done

SpecComments == Init /\ [][NextComments]_vars

(***************************************************************************)
(* Properties of scrape_with_fallback (checked under Spec)                 *)
(***************************************************************************)
OrderComputed == fb_pc \in {"trying", "returned", "raised"} /\ strategies_to_try # <<>>

(* What draining an adapter gives: its posts, and whether the attempt is a
   complete, non-empty one. *)
Yielded(s) == scrape_posts(s, fb_args.outcome[s], fb_args.max_posts)
CompletesNonEmpty(s) == ~fb_args.outcome[s].throws /\ Len(Yielded(s)) > 0

(* C1: scrape_with_fallback never returns an empty list: whenever the call
   has returned (rather than raised), the list it returned has at least one
   post, whatever the platform, max_posts, preferred strategy and adapter
   outcomes. *)
C1_NeverReturnsEmpty ==
    /\ fb_pc = "returned" => fb_result.posts # <<>>
    /\ fb_pc = "raised" => "error" \in DOMAIN fb_result

(* C1 witness: a call that returned posts after two earlier strategies gave
   nothing (one raised, one was empty). *)
C1_Witness ==
    /\ fb_pc = "returned"
    /\ Len(attempted) = 3
    /\ fb_args.outcome[attempted[1]].throws
    /\ ~fb_args.outcome[attempted[2]].throws
    /\ fb_result.posts # <<>>

(* C2: strategies are attempted one after another in try-order, each at most
   once; a strategy is attempted only after every earlier one threw or came
   back empty; the call returns exactly the posts of the first strategy whose
   sequence completes non-empty, and attempts nothing after it. *)
C2_FirstSuccessInOrder ==
    /\ Len(attempted) <= Len(strategies_to_try)
    /\ attempted = SubSeq(strategies_to_try, 1, Len(attempted))
    /\ \A i, j \in 1..Len(attempted) : i # j => attempted[i] # attempted[j]
    /\ \A i \in 1..(Len(attempted) - 1) : ~CompletesNonEmpty(attempted[i])
    /\ fb_pc = "trying" =>
          /\ Len(attempted) = fb_idx - 1
          /\ \A i \in 1..Len(attempted) : ~CompletesNonEmpty(attempted[i])
    /\ fb_pc = "returned" =>
          /\ attempted # <<>>
          /\ CompletesNonEmpty(attempted[Len(attempted)])
          /\ fb_result.posts = Yielded(attempted[Len(attempted)])
    /\ (fb_pc = "raised" /\ strategies_to_try # <<>>) =>
          /\ attempted = strategies_to_try
          /\ \A i \in 1..Len(attempted) : ~CompletesNonEmpty(attempted[i])

(* C2 witness: WEB empty, FEED with posts, no preference: WEB is attempted
   first, FEED second, and the result is FEED's posts. *)
C2_Witness ==
    /\ fb_pc = "returned"
    /\ fb_args.preferred_strategy = None
    /\ attempted = <<"web", "feed">>
    /\ ~fb_args.outcome["web"].throws
    /\ fb_result.posts = <<<<"feed", 1>>, <<"feed", 2>>>>

(* C3: the try-order is the preferred strategy (when given and registered)
   followed by the other registered members of [WEB, FEED, API] in that
   order; otherwise the registered members of [WEB, FEED, API] in that order.
   It has no duplicate and no unregistered strategy. *)
C3_Rank == [web |-> 1, feed |-> 2, api |-> 3]

C3_TryOrder ==
    OrderComputed =>
        LET order == strategies_to_try
            avail == SeqToSet(strategies[fb_args.platform])
            pref  == fb_args.preferred_strategy
            first == IF pref \in avail THEN 2 ELSE 1
        IN  /\ \A i, j \in 1..Len(order) : i # j => order[i] # order[j]
            /\ SeqToSet(order) =
                  (avail \cap {"web", "feed", "api"})
                      \cup (IF pref \in avail THEN {pref} ELSE {})
            /\ pref \in avail => order[1] = pref
            /\ \A i, j \in first..Len(order) :
                  i < j => C3_Rank[order[i]] < C3_Rank[order[j]]

(* C3 witness: FEED preferred with all three registered gives
   [FEED, WEB, API]. *)
C3_Witness ==
    /\ OrderComputed
    /\ fb_args.preferred_strategy = "feed"
    /\ strategies["reddit"] = <<"api", "web", "feed">>
    /\ strategies_to_try = <<"feed", "web", "api">>

(***************************************************************************)
(* Properties of the job lifecycle (checked under SpecJobs)                *)
(***************************************************************************)
Status(j) == db_jobs[j].status

(* the task of job j has executed some of its body *)
TaskHasRun(j) == tasks[j].idx >= 1 \/ tasks[j].pc = "done"

(* C4: once a job's persisted status is completed, failed or cancelled, its
   persisted record never changes again, whatever calls and task steps
   follow (cleanup_old_jobs may delete the record; it does not change it). *)
C4_TerminalIsFinal ==
    [][\A j \in DOMAIN db_jobs :
          (Status(j) \in Terminal /\ j \in DOMAIN db_jobs')
          => db_jobs'[j] = db_jobs[j]]_vars

(* C4 witness: a job that is cancelled, on which a later stop_job has just
   returned false. *)
C4_Witness ==
    \E j \in DOMAIN db_jobs :
        /\ Status(j) = "cancelled"
        /\ ret = [op |-> "stop_job", job |-> j, value |-> "False"]

(* C5: a stop_job call made while the job's task is running (the call found
   the job in the active table and the task was suspended in its scrape)
   returns true, and when it returns the job is persisted as cancelled with
   completed_at set and is absent from the active table. *)
C5_StopRunningJob ==
    \A j \in DOMAIN db_jobs :
        (/\ ret.op = "stop_job"
         /\ ret.job = j
         /\ ret.value # "False"
         /\ tasks[j].idx >= 1)
        => /\ ret.value = "True"
           /\ Status(j) = "cancelled"
           /\ db_jobs[j].completed_at # None
           /\ j \notin active_jobs

(* C6: when create_job returns, the new job is persisted as pending, its
   task has been scheduled and its id is in the active table. *)
C6_CreateSchedules ==
    ret.op = "create_job" =>
        /\ ret.value \in DOMAIN db_jobs
        /\ Status(ret.value) = "pending"
        /\ tasks[ret.value].pc = "scheduled"
        /\ ret.value \in active_jobs

(* C7: for every job whose task has begun executing, the job is in the
   active table exactly when its persisted status is running. *)
C7_ActiveIffRunning ==
    \A j \in DOMAIN db_jobs :
        TaskHasRun(j) => (j \in active_jobs <=> Status(j) = "running")

(* the task of job j has ended and the table has no entry for j *)
Settled(j) == tasks[j].pc \in {"done", "cancelled"} /\ j \notin active_jobs

(* C21: when stop_job returns true the job's task has ended and the job is
   not in the active table; from then on the task takes no step, the job's
   persisted record is not written and the job never enters the active table
   again, so neither list_active_jobs nor is_running reports it. *)
C21_StopTrueMeansSettled ==
    /\ [](\A j \in DOMAIN db_jobs :
            ret = [op |-> "stop_job", job |-> j, value |-> "True"] => Settled(j))
    /\ [][\A j \in DOMAIN db_jobs :
            Settled(j) => /\ tasks'[j] = tasks[j]
                          /\ j \in DOMAIN db_jobs' => db_jobs'[j] = db_jobs[j]
                          /\ j \notin active_jobs']_vars

(* C21 witness: stop_job has just returned true on a job whose task was
   cancelled. *)
C21_Witness ==
    \E j \in DOMAIN db_jobs :
        /\ ret = [op |-> "stop_job", job |-> j, value |-> "True"]
        /\ tasks[j].pc = "cancelled"
        /\ Status(j) = "cancelled"

(* C22: under a fair event loop, every job create_job has returned the id
   of eventually has a terminal status and is absent from the active table. *)
C22_CreatedJobTerminates ==
    \A j \in JobIds :
        [](ret = [op |-> "create_job", job |-> j, value |-> j]
           => <>(/\ j \in DOMAIN db_jobs
                 /\ Status(j) \in Terminal
                 /\ j \notin active_jobs))

(* what get_job_status returns for a persisted job: the record, with
   is_running equal to the id's membership in the active table *)
ReturnsRecord(j) ==
    /\ ret'.value = "dict"
    /\ ret'.dict.is_running = (j \in active_jobs)
    /\ \A f \in DOMAIN ret'.dict \ {"job_id", "is_running"} :
          ret'.dict[f] = db_jobs[j][f]

(* C23 as stated: get_job_status returns None exactly for an id no job was
   ever created with, and otherwise the persisted record with is_running;
   the id create_job has just returned is the id of a persisted job. *)
C23_NoneIffNeverCreated ==
    /\ [][\A j \in JobIds :
            get_job_status(j) =>
                IF j \notin Created THEN ret'.value = None
                                    ELSE ReturnsRecord(j)]_vars
    /\ [](ret.op \in {"create_job", "create_job_first"}
          => ret.value \in DOMAIN db_jobs)

(* C23, amended: get_job_status returns None exactly for an id that has no
   persisted record -- no job was created with it, or cleanup_old_jobs has
   deleted the job's record -- and otherwise the persisted record with
   is_running; it has no raising outcome; the id create_job has just
   returned is the id of a persisted job, and a record is deleted only by
   cleanup_old_jobs and only in a terminal state. *)
C23_GetJobStatus ==
    /\ [][\A j \in JobIds :
            get_job_status(j) =>
                /\ ret'.op = "get_job_status"
                /\ IF j \notin DOMAIN db_jobs THEN ret'.value = None
                                               ELSE ReturnsRecord(j)]_vars
    /\ [](ret.op \in {"create_job", "create_job_first"}
          => ret.value \in DOMAIN db_jobs)
    /\ [][\A j \in DOMAIN db_jobs :
            j \notin DOMAIN db_jobs' =>
                /\ Status(j) \in Terminal
                /\ ret'.op = "cleanup_old_jobs"]_vars

(* C23 witness: get_job_status has just returned None for a job that was
   created and has since been deleted, while another job is reported with
   is_running true. *)
C23_Witness ==
    /\ ret.op = "get_job_status"
    /\ ret.value = None
    /\ ret.job \in Created
    /\ active_jobs # {}

(* C26: start_job on a persisted job that is not in the active table
   returns true and leaves the job in the active table with one task
   scheduled for it; on a job in the table, or on an id no job was created
   with, it returns false and changes neither the table nor any task. *)
C26_StartJob ==
    [][\A j \in JobIds :
          start_job(j) =>
              IF j \in DOMAIN db_jobs /\ j \notin active_jobs
              THEN /\ ret' = [op |-> "start_job", job |-> j, value |-> "True"]
                   /\ j \in active_jobs'
                   /\ tasks'[j].pc = "scheduled"
              ELSE /\ ret' = [op |-> "start_job", job |-> j, value |-> "False"]
                   /\ UNCHANGED <<active_jobs, tasks>>]_vars

(* C8: stop_job on a job in a terminal state, or on an id that was never
   created, returns false and changes neither the persisted records nor the
   active table (nor any task). *)
C8_StopTerminalIsNoOp ==
    [][\A j \in JobIds :
          (stop_job(j) /\ (j \notin DOMAIN db_jobs \/ Status(j) \in Terminal))
          => /\ ret' = [op |-> "stop_job", job |-> j, value |-> "False"]
             /\ UNCHANGED <<db_jobs, active_jobs, tasks>>]_vars

(* C8 witness: stop_job has just returned false on a completed job. *)
C8_Witness ==
    \E j \in DOMAIN db_jobs :
        /\ Status(j) = "completed"
        /\ j \notin active_jobs
        /\ ret = [op |-> "stop_job", job |-> j, value |-> "False"]

(***************************************************************************)
(* Properties of _make_request (checked under SpecRetry)                   *)
(***************************************************************************)
BusinessError(outcome) ==
    outcome.exc = "ClientResponseError" /\ outcome.status \in {401, 403, 404}

Transient(outcome) == outcome.exc \in {"ClientConnectionError", "TimeoutError"}

CallInProgress == rq_pc \in {"sleep", "acquire", "get"}

(* C9: an attempt that fails with a business error (raise_for_status on a
   401, 403 or 404) is the only attempt of the call: the call has ended by
   raising that very error, and no retry follows. *)
C9_BusinessErrorNotRetried ==
    \A i \in 1..Len(rq_attempts) :
        BusinessError(rq_attempts[i]) =>
            /\ Len(rq_attempts) = 1
            /\ rq_pc = "raised"
            /\ rq_result = [kind |-> "raise", exc |-> "ClientResponseError",
                            status |-> rq_attempts[i].status]

(* C10: when the first two attempts fail with a transient error (connection
   error or timeout) the call goes on to a third attempt, and when that one
   succeeds the call returns its value; three attempts were made, each after
   its own acquire(), and there is never a fourth. *)
C10_ThirdAttemptSucceeds ==
    /\ Len(rq_attempts) <= 3
    /\ (Len(rq_attempts) >= 2 /\ Transient(rq_attempts[1]) /\ Transient(rq_attempts[2])) =>
          IF Len(rq_attempts) = 2
          THEN CallInProgress
          ELSE rq_attempts[3].exc = None =>
                  /\ rq_pc = "returned"
                  /\ rq_result = [kind |-> "return", value |-> rq_attempts[3].value]
                  /\ rq_acquired = 3

(* C10 witness: a timeout, then a connection error, then a JSON response,
   returned to the caller. *)
C10_Witness ==
    /\ rq_pc = "returned"
    /\ Len(rq_attempts) = 3
    /\ rq_attempts[1].exc = "TimeoutError"
    /\ rq_attempts[2].exc = "ClientConnectionError"
    /\ rq_result = [kind |-> "return", value |-> "json"]
    /\ rq_waits = <<4, 4>>

(* C11: when every attempt so far failed with a transient error, the call
   is still in progress after the first and after the second attempt, and
   after the third it has raised tenacity.RetryError holding that third
   attempt, the last underlying error; a fourth attempt is never made. *)
C11_ExhaustedAfterThree ==
    (rq_attempts # <<>> /\ \A i \in 1..Len(rq_attempts) : Transient(rq_attempts[i])) =>
        IF Len(rq_attempts) < stop_after_attempt
        THEN CallInProgress
        ELSE /\ Len(rq_attempts) = stop_after_attempt
             /\ rq_pc = "raised"
             /\ rq_result = [kind |-> "raise", exc |-> "RetryError",
                             last_attempt |-> rq_attempts[Len(rq_attempts)]]
             /\ rq_acquired = stop_after_attempt
             /\ Len(rq_waits) = stop_after_attempt - 1

(* C11 witness: three transient failures, the last one of a different kind
   than the first two, and RetryError raised with the last one. *)
C11_Witness ==
    /\ rq_pc = "raised"
    /\ Len(rq_attempts) = 3
    /\ rq_attempts[1].exc = "TimeoutError"
    /\ rq_attempts[2].exc = "TimeoutError"
    /\ rq_attempts[3].exc = "ClientConnectionError"
    /\ rq_result.exc = "RetryError"
    /\ rq_result.last_attempt.exc = "ClientConnectionError"

(***************************************************************************)
(* Failure paths of scrape_with_fallback (checked under Spec)              *)
(***************************************************************************)
CallEnded == fb_pc \in {"returned", "raised"}

(* positions in the try-order of the strategies whose attempt raised *)
Threw == {i \in 1..Len(strategies_to_try) :
             fb_args.outcome[strategies_to_try[i]].throws}

Last(S) == CHOOSE i \in S : \A k \in S : k <= i

(* C27: after __aenter__, whichever adapters failed to be constructed or
   entered, the registry of the platform holds exactly the adapters that
   were built -- WEB and FEED each when its own construction succeeded, API
   when API scrapers are enabled and its construction succeeded -- each
   under its own strategy key, once. *)
C27_InitIsolatesFailures ==
    init_args.entered =>
        /\ DOMAIN strategies = {"reddit"}
        /\ \A s \in {"web", "feed"} :
              InSeq(s, strategies["reddit"]) <=> init_args.ok[s]
        /\ InSeq("api", strategies["reddit"])
              <=> (init_args.enable_api_scrapers /\ init_args.ok["api"])
        /\ SeqToSet(strategies["reddit"]) \subseteq {"api", "web", "feed"}
        /\ Cardinality(SeqToSet(strategies["reddit"])) = Len(strategies["reddit"])

(* C27 witness: the API adapter was enabled and failed, the WEB adapter
   failed, and the FEED adapter alone is registered. *)
C27_Witness ==
    /\ init_args.entered
    /\ init_args.enable_api_scrapers
    /\ ~init_args.ok["api"]
    /\ ~init_args.ok["web"]
    /\ strategies = [p \in {"reddit"} |-> <<"feed">>]

(* C29: in every fetch of every adapter, each request sent to the network
   comes right after a completed rate_limiter.acquire() of that adapter, and
   inside a call of the retry-decorated _make_request. *)
C29_EveryFetchRateLimited ==
    \A i \in DOMAIN rq_net :
        rq_net[i] = "get" =>
            /\ i > 1
            /\ rq_net[i - 1] = "acquire"
            /\ rq_net[1] = "_make_request"

(* C30: in what get_strategy_info returned, requires_auth is true for the
   API adapter only, and the Feed adapter, whose scrape_search and
   scrape_comments yield nothing, is reported with supports_search false
   and supports_comments false. *)
C30_InfoMatchesCapabilities ==
    info.asked =>
        \A p \in DOMAIN info.platforms :
        \A st \in DOMAIN info.platforms[p].strategy_details :
            LET details == info.platforms[p].strategy_details[st]
            IN  /\ details.requires_auth <=> st = "api"
                /\ st = "feed" => /\ ~details.supports_search
                                  /\ ~details.supports_comments

(* C31: an adapter's health_check returns a boolean for every outcome of
   its probe -- true when the probe request returned, false when it raised
   (an error that is not retried, or RetryError after the attempts are
   used up) -- and never raises to its caller. *)
C31_HealthCheckReturnsBool ==
    rq_pc = "health_check_returned" =>
        /\ rq_result.kind = "return"
        /\ rq_result.value \in BOOLEAN
        /\ rq_result.value <=> rq_result.probe.kind = "return"

C31_Witness ==
    /\ rq_pc = "health_check_returned"
    /\ rq_result.kind = "return"
    /\ rq_result.value = FALSE
    /\ rq_result.probe.exc = "RetryError"
    /\ Len(rq_attempts) = stop_after_attempt

(* C32: after __aenter__, the manager's health_check does not raise and
   returns a map whose keys are the platforms that have registered
   adapters and whose values are booleans. *)
C32_ManagerHealthCheck ==
    (ret.op = "health_check" /\ init_args.entered) =>
        /\ ret.value = "dict"
        /\ DOMAIN ret.dict = {p \in DOMAIN strategies : strategies[p] # <<>>}
        /\ \A p \in DOMAIN ret.dict : ret.dict[p] \in BOOLEAN

(* C33: for every adapter and every max_posts >= 0, scrape_posts yields at
   most max_posts posts, so the list scrape_with_fallback returns from
   draining it has between 1 and max_posts posts. *)
C33_AtMostMaxPosts ==
    run_args.proc = "scrape_posts" =>
        /\ run_locals.posts_yielded <= run_args.max_posts
        /\ Len(run_locals.posts) = run_locals.posts_yielded
        /\ run_pc = "scrape_posts_returned" =>
              /\ Len(run_locals.posts) >= 1
              /\ Len(run_locals.posts) <= run_args.max_posts

(* C33 witness: a page with more convertible items than max_posts was cut
   at max_posts and returned *)
C33_Witness ==
    /\ run_pc = "scrape_posts_returned"
    /\ run_args.strategy = "web"
    /\ Len(run_locals.posts) = run_args.max_posts
    /\ Cardinality({i \in DOMAIN run_args.page : run_args.page[i] = "ok"})
          > run_args.max_posts

(* the positions of the page whose conversion succeeds, in page order *)
RECURSIVE Convertible(_, _)
Convertible(page, from) ==
    IF from > Len(page) THEN <<>>
    ELSE IF page[from] = "ok"
         THEN <<from>> \o Convertible(page, from + 1)
         ELSE Convertible(page, from + 1)

(* C34: an item whose conversion fails is skipped without raising and
   without counting toward max_posts, and the later items of the page are
   still converted and yielded: a sequence that ended normally has yielded
   the first max_posts convertible items of the fetched page, in order. *)
C34_FailedItemSkipped ==
    (run_pc = "scrape_posts_exhausted" /\ run_args.fetch = "page") =>
        LET good == Convertible(run_args.page, 1)
            n == Min(run_args.max_posts, Len(good))
        IN  run_locals.posts = [k \in 1..n |-> <<run_args.strategy, good[k]>>]

(* node a is an ancestor of node c in the reply tree *)
Ancestor(tree, a, c) ==
    /\ a < c
    /\ \A k \in (a+1)..c : tree.depth[k] > tree.depth[a]

(* C35: the web adapter's comment traversal yields at most max_comments
   comments over all levels of the reply tree, for every tree and every
   max_comments >= 0, in depth-first pre-order: a comment before its
   replies, and a comment's yielded replies before its next sibling. *)
C35_CommentTraversal ==
    run_args.proc = "scrape_comments" =>
        LET y == run_locals.yielded
            tree == run_args.tree
        IN  /\ Len(y) <= run_args.max_comments
            /\ \A i, j \in 1..Len(y) :
                  i < j =>
                    /\ y[i] # y[j]
                    /\ ~Ancestor(tree, y[j], y[i])
                    /\ \A a \in DOMAIN tree.depth :
                          (Ancestor(tree, a, y[i]) /\ ~Ancestor(tree, a, y[j])
                             /\ a # y[j])
                          => \A k \in j..Len(y) : ~Ancestor(tree, a, y[k])

(* C35 witness: a tree with replies at two levels and a later top-level
   comment was cut at max_comments inside the replies *)
C35_Witness ==
    /\ run_pc = "scrape_comments_exhausted"
    /\ run_args.max_comments = 2
    /\ run_args.tree.depth = <<1, 2, 3, 1>>
    /\ run_locals.yielded = <<1, 2>>

(* C36: a cancellation delivered while scrape_with_fallback is draining a
   strategy is not a strategy failure: the task attempts no further
   strategy, persists nothing and does not mark its job failed or
   completed; it ends cancelled and stays so. *)
C36_CancellationNotAFailure ==
    /\ [][\A j \in DOMAIN tasks :
            (tasks[j].pc = "scraping" /\ tasks[j].must_cancel)
            => /\ tasks'[j].pc \in {"scraping", "cancelled"}
               /\ tasks'[j].idx = tasks[j].idx
               /\ db_jobs'[j] = db_jobs[j]]_vars
    /\ [][\A j \in DOMAIN tasks :
            (tasks[j].pc = "cancelled" /\ tasks[j].idx >= 1)
            => /\ tasks'[j] = tasks[j]
               /\ j \in DOMAIN db_jobs'
               /\ Status(j)' \notin {"completed", "failed"}
               /\ db_jobs'[j].posts_scraped = db_jobs[j].posts_scraped]_vars

(* C36 witness: a task was cancelled while draining a strategy that was not
   the last of its try-order *)
C36_Witness ==
    \E j \in DOMAIN db_jobs :
        /\ tasks[j].pc = "cancelled"
        /\ tasks[j].idx >= 1
        /\ tasks[j].idx < Len(job_order(j))
        /\ Status(j) = "running"

(* C37: when two stop_job calls for the same running job are in flight
   together, neither raises, and once the first of them has returned the job
   is persisted as cancelled and is absent from the active table. *)
C37_ConcurrentStops ==
    [][\A j \in DOMAIN tasks :
          /\ (stop_waiters[j] = 2 /\ stop_waiters'[j] = 1)
              => /\ ret' = [op |-> "stop_job", job |-> j, value |-> "True"]
                 /\ Status(j)' = "cancelled"
                 /\ j \notin active_jobs'
          /\ (stop_waiters[j] = 1 /\ stop_waiters'[j] = 0
                 /\ Status(j) = "cancelled")
              => ret' = [op |-> "stop_job", job |-> j, value |-> "True"]]_vars

(* C38: __aexit__ with any number of active jobs completes without
   raising, and after it no job task is still running. *)
C38_ExitCompletes ==
    /\ aexit.pc # "raised"
    /\ aexit.pc = "returned" => \A j \in DOMAIN tasks : done(tasks[j])

(* C16: when every strategy of the try-order raised or completed empty, the
   call ends by raising "All scraping strategies failed" after attempting
   each of them, and the error names as last error the one raised by the
   last strategy in the order that raised. *)
C16_AllFailedCarriesLastError ==
    (/\ CallEnded
     /\ strategies_to_try # <<>>
     /\ \A i \in 1..Len(strategies_to_try) : ~CompletesNonEmpty(strategies_to_try[i]))
    => /\ fb_pc = "raised"
       /\ fb_result.error = "Exception: All scraping strategies failed"
       /\ attempted = strategies_to_try
       /\ Threw # {} =>
             fb_result.last_error = [raised_by |-> strategies_to_try[Last(Threw)]]

(* C16 witness: WEB raises, FEED raises after yielding a post, API completes
   empty; the error carries FEED's error. *)
C16_Witness ==
    /\ fb_pc = "raised"
    /\ attempted = <<"web", "feed", "api">>
    /\ fb_args.outcome["web"].throws
    /\ fb_args.outcome["feed"].throws
    /\ ~fb_args.outcome["api"].throws
    /\ fb_result.last_error = [raised_by |-> "feed"]

(* C17: the list a call returns holds no post of an attempt that raised: it
   is exactly what one strategy yielded in an attempt that completed. *)
C17_NoPartialResults ==
    fb_pc = "returned" =>
        /\ \A i \in 1..Len(fb_result.posts) :
              ~fb_args.outcome[fb_result.posts[i][1]].throws
        /\ \E s \in SeqToSet(attempted) :
              /\ ~fb_args.outcome[s].throws
              /\ fb_result.posts = Yielded(s)

(* C17 witness: WEB yielded two posts and then raised; the call returned
   FEED's posts only. *)
C17_Witness ==
    /\ fb_pc = "returned"
    /\ attempted = <<"web", "feed">>
    /\ fb_args.outcome["web"] = [items |-> 2, throws |-> TRUE]
    /\ fb_args.max_posts = 2
    /\ fb_result.posts = <<<<"feed", 1>>>>

(* C18: a call for a platform that is not in the registry, or whose set of
   registered adapters is empty, ends by raising the no-scrapers ValueError
   and invokes scrape_posts on no adapter. *)
NoAdapters ==
    \/ fb_args.platform \notin DOMAIN strategies
    \/ strategies[fb_args.platform] = <<>>

C18_NoAdaptersRaises ==
    (fb_pc # "idle" /\ NoAdapters) =>
        /\ fb_pc = "raised"
        /\ fb_result.error \in {"ValueError: No scrapers available",
                                "ValueError: No working scrapers available"}
        /\ attempted = <<>>

(* C18 witness: every adapter failed to initialise, so reddit is registered
   with an empty adapter set, and the call raised. *)
C18_Witness ==
    /\ fb_pc = "raised"
    /\ "reddit" \in DOMAIN strategies
    /\ strategies["reddit"] = <<>>
    /\ fb_args.platform = "reddit"
    /\ fb_result.error = "ValueError: No working scrapers available"

(***************************************************************************)
(* Properties of scrape_search_with_fallback (checked under SpecSearch)    *)
(***************************************************************************)
Registered == IF fb_args.platform \in DOMAIN strategies
              THEN SeqToSet(strategies[fb_args.platform]) ELSE {}

(* RedditFeedScraper.scrape_search: "RSS feeds don't support search" *)
CannotSearch == {"feed"}

(* C19: no adapter that cannot search is in the search try-order or has its
   scrape_search invoked (the Feed adapter in particular), and a call made
   when no registered adapter can search raises the no-search-capable
   error. *)
C19_OnlySearchCapableTried ==
    fb_pc # "idle" =>
        /\ SeqToSet(strategies_to_try) \cap CannotSearch = {}
        /\ SeqToSet(attempted) \cap CannotSearch = {}
        /\ (fb_args.platform \in DOMAIN strategies
            /\ \A s \in Registered : s \in CannotSearch \/ ~has_scrape_search(s))
           => /\ fb_pc = "raised"
              /\ fb_result.error = "ValueError: No search-capable scrapers available"

(* C20: the search try-order is the preferred strategy, when it is registered
   and reported search-capable, followed by the other registered
   search-capable strategies in the order WEB, FEED, API; otherwise those
   strategies in the order WEB, FEED, API.  Search-capable is what the
   manager's capability report says (supports_search). *)
C20_SearchTryOrder ==
    OrderComputed =>
        LET order   == strategies_to_try
            capable == {s \in Registered : has_scrape_search(s)}
            pref    == fb_args.preferred_strategy
            first   == IF pref \in capable THEN 2 ELSE 1
        IN  /\ \A i, j \in 1..Len(order) : i # j => order[i] # order[j]
            /\ SeqToSet(order) = capable
            /\ pref \in capable => order[1] = pref
            /\ \A i, j \in first..Len(order) :
                  i < j => C3_Rank[order[i]] < C3_Rank[order[j]]

(* C20 witness: API, WEB and FEED registered in that order, FEED preferred:
   the search try-order is [FEED, WEB], and both have been tried. *)
C20_Witness ==
    /\ fb_pc = "raised"
    /\ fb_args.platform = "reddit"
    /\ "reddit" \in DOMAIN strategies
    /\ strategies["reddit"] = <<"api", "web", "feed">>
    /\ fb_args.preferred_strategy = "feed"
    /\ strategies_to_try = <<"feed", "web">>
    /\ attempted = <<"feed", "web">>
    /\ fb_result.error = "Exception: All search strategies failed"

(***************************************************************************)
(* Properties of RateLimiter (checked under SpecLimiter)                   *)
(***************************************************************************)
RECURSIVE SumUpTo(_, _)
SumUpTo(f, n) == IF n < 0 THEN 0 ELSE f[n] + SumUpTo(f, n - 1)

(* acquisitions completed in the trailing window (now - W, now] *)
AcquiredInWindow == SumUpTo(lim_window, lim_max_rate - 1)

(* C12: with N requests per window of W, at every moment at most N
   acquisitions have completed within the trailing window of length W,
   however many callers are in acquire(). *)
C12_AtMostNPerWindow == AcquiredInWindow <= lim_max_rate

(***************************************************************************)
(* Properties of the job procedures (checked under SpecRun)                *)
(***************************************************************************)
Job == db_jobs[1]

RunEnded == run_pc = "done"

(* the fetched posts the job's keywords let through *)
Matching ==
    {p \in SeqToSet(Fetched) :
        Job.keywords = <<>> \/ matches_keywords(content(p), Job.keywords)}

(* an exception escapes the body of the procedure: scrape_with_fallback
   raises (manager), the sequence of posts raises (base) *)
ExceptionEscapes ==
    \/ run_args.proc = "manager"
       /\ (run_args.source.throws \/ Len(Fetched) = 0)
    \/ run_args.proc = "base" /\ run_args.source.throws

(* C13: when a job has completed, the posts it stored are exactly the
   fetched posts that contain one of its keywords, case-insensitively (all
   fetched posts when it has no keywords), less those save_post refused;
   posts_scraped is their number; and a post that was only filtered out
   leaves no entry in the job's error list. *)
C13_KeywordFilter ==
    (RunEnded /\ Job.status = "completed") =>
        /\ run_locals.saved = Matching \ run_locals.save_failed
        /\ Job.posts_scraped = Cardinality(run_locals.saved)
        /\ (run_locals.save_failed = {} /\ ~Job.include_comments)
              => Job.errors = <<>>

(* C14: a job procedure in which save_post failed for some posts and no
   exception escaped ends with the job completed, each failure in the
   persisted error list, the failed posts not counted in posts_scraped, and
   every fetched post either stored, refused by save_post or filtered out. *)
C14_SaveFailureIsolated ==
    (RunEnded /\ ~ExceptionEscapes) =>
        /\ Job.status = "completed"
        /\ Len(Job.errors) >= Cardinality(run_locals.save_failed)
        /\ Job.posts_scraped = Cardinality(run_locals.saved)
        /\ run_locals.saved \cap run_locals.save_failed = {}
        /\ \A p \in SeqToSet(Fetched) :
              \/ p \in run_locals.saved \cup run_locals.save_failed
              \/ ~keep_post(Job, p)

(* the comments this procedure stored *)
StoredComments == {x \in SeqToSet(run_locals.log) : x[1] = "comment"}

(* C24: a completed job with include_comments set has been through the
   comments of every post it stored; the comments it stored all contain one
   of the job's keywords (when it has keywords); comments_scraped is the
   number of stored comments and posts_scraped the number of stored posts;
   and a comment whose save failed left an entry in the job's error list
   while the job went on to completion. *)
C24_CommentsFilteredAndCounted ==
    (RunEnded /\ Job.status = "completed" /\ Job.include_comments) =>
        /\ run_locals.saved \subseteq run_locals.drained
        /\ \A x \in StoredComments :
              Job.keywords = <<>> \/ matches_keywords(content(x), Job.keywords)
        /\ Job.comments_scraped = Cardinality(StoredComments)
        /\ Job.posts_scraped = Cardinality(run_locals.saved)
        /\ Cardinality({i \in DOMAIN Job.errors :
                            Job.errors[i] = "Comment save error"})
              = Cardinality(run_locals.comment_failed)

(* where a stored row stands in the adapters' sequences: the position of
   its post, then its own position among that post's comments (0 for the
   post itself) *)
Place(x) == IF x[1] = "comment" THEN <<x[2], x[3]>> ELSE <<x[2], 0>>

Precedes(a, b) == a[1] < b[1] \/ (a[1] = b[1] /\ a[2] < b[2])

(* C25: in every state of a job procedure, the rows stored so far were
   stored in the order post, its comments as the adapter yielded them, next
   post, its comments, ...; every stored comment belongs to a post the loop
   has passed or is at; and when the loop takes up a post, the comments of
   every post stored before it have been gone through to the end. *)
C25_CommentsBeforeNextPost ==
    run_pc # "idle" =>
        /\ \A a, b \in DOMAIN run_locals.log :
              a < b => Precedes(Place(run_locals.log[a]), Place(run_locals.log[b]))
        /\ \A x \in StoredComments :
              \/ x[2] < run_locals.i
              \/ x[2] = run_locals.i /\ run_locals.k >= 1
        /\ (run_args.proc = "base" /\ Job.include_comments) =>
              \A p \in run_locals.saved :
                 p[2] < run_locals.i => p \in run_locals.drained

(* C25 witness: run_scraping_job has stored a post, its two comments in
   the adapter's order, and then the next post and its first comment. *)
C25_Witness ==
    /\ run_args.proc = "base"
    /\ run_pc = "iterating"
    /\ run_locals.log = << <<"web", 1>>, Comment(<<"web", 1>>, 1),
                           Comment(<<"web", 1>>, 2),
                           <<"web", 2>>, Comment(<<"web", 2>>, 1) >>

(* the post the loop of the procedure is about to save *)
AboutToSave(p) ==
    /\ run_pc = "iterating"
    /\ run_locals.i <= Len(Fetched)
    /\ run_locals.k = 0
    /\ p = Fetched[run_locals.i]
    /\ run_args.proc = "base" => keep_post(Job, p)

(* C28: save_post of a post whose id the table already holds succeeds --
   stored is among its outcomes -- and the table keeps one row for the id
   (db_posts is the set of stored ids). *)
C28_SaveIsUpsert ==
    \A p \in db_posts : AboutToSave(p) => TRUE \in save_post_outcomes(p)

(* C39: for a job in a terminal state, the persisted posts_scraped is the
   number of posts the job stored through save_post before it ended. *)
C39_PostsScrapedIsStoredCount ==
    (RunEnded /\ Job.status \in Terminal) =>
        Job.posts_scraped = Cardinality(run_locals.saved)

(* C15: when an exception escapes the job procedure, the procedure ends
   with the job persisted as failed, success false, completed_at set and
   the error in its error list; at no point is the job reported completed. *)
C15_EscapedExceptionFails ==
    (run_pc # "idle" /\ ExceptionEscapes) =>
        /\ Job.status # "completed"
        /\ RunEnded =>
              /\ Job.status = "failed"
              /\ Job.success = FALSE
              /\ Job.completed_at # None
              /\ run_locals.raised # None
              /\ \E i \in DOMAIN Job.errors : Job.errors[i] = run_locals.raised

(* C15 witness: run_scraping_job stored a post, failed to store another,
   then its source raised: the job is failed with both errors. *)
C15_Witness ==
    /\ RunEnded
    /\ run_args.proc = "base"
    /\ Job.status = "failed"
    /\ Job.errors = <<"Post processing error", "Job failed">>
    /\ Cardinality(run_locals.saved) = 1

=============================================================================
